---------------------------- MODULE Spec2Model ----------------------------
(***************************************************************************)
(* A state-machine model of the voice session layer of the avatar app:     *)
(*   - the Chunk Dispatcher of app/SimliVoiceAvatar.tsx                    *)
(*     (audioChunkQueueRef, isProcessingChunkRef, processNextAudioChunk),  *)
(*   - the Explicit-Trigger session  app/voice/OpenAIVoiceClient.ts,       *)
(*   - the Auto-VAD session          app/voice/GeminiVoiceClient.ts,       *)
(*   - the Resampler/Filter and the Codec Bridge  app/voice/audioUtils.ts. *)
(* Every handler runs to completion on one JavaScript event loop, so one   *)
(* action is one whole handler (or one continuation of an async function   *)
(* between two awaits).                                                    *)
(***************************************************************************)
EXTENDS Integers, Sequences, FiniteSets, TLC

(***************************************************************************)
(* Bounds of the model (not program constants).                            *)
(***************************************************************************)
\* how many audio-produced events one run of the dispatcher delivers
MaxFrames == 4
\* how many different frame contents the events may carry
NumFrameKinds == 3

\* how many RealtimeClient objects one Explicit-Trigger session creates in a run
MaxClients == 6
\* how many reconnect backoff timers may be pending at once
MaxTimers == 1
\* how many transports (opening or open) may be alive at once
MaxLive == 1
\* how many live.connect() calls one Auto-VAD session makes in a run
MaxSessions == 3
\* the longest PCM frame handed to the resampler or the codec
MaxSamples == 32
\* up to this length the frames take every combination of sample values
MaxVaried == 3
\* how many startRecording() calls one page makes in a run
MaxRecordings == 2
\* how many inactivity timers one page sets in a run
MaxInactivityTimers == 3

FrameKinds == 1..NumFrameKinds

(***************************************************************************)
(* Program constants.                                                      *)
(***************************************************************************)
RECONNECT_MAX_ATTEMPTS == 5
INACTIVITY_DURATION == 20000

\* a null reference (client, interval id)
Null == 0

VARIABLES
  \* ---- Chunk Dispatcher (SimliVoiceAvatar.tsx)
  audioChunkQueue,     \* audioChunkQueueRef.current : Seq(frame)
  isProcessingChunk,   \* isProcessingChunkRef.current
  sinkLog,             \* every frame handed to simliClient.sendAudioData, in order
  produced,            \* history: every frame carried by an onAudioData event
  producedSinceInt,    \* history: the frames carried since the last interruption
  sinkSinceInt,        \* history: the frames handed to the sink since then
  discarded,           \* history: frames an interruption removed from the queue
  interruptions,       \* history: has an interruption been handled (0 or 1)
  dLast,               \* history: the dispatcher handler that ran last
  \* ---- Explicit-Trigger session (OpenAIVoiceClient.ts)
  aiSpeaksFirst,       \* config.aiSpeaksFirst (immutable)
  timerCap,            \* how many reconnect timers may be pending in this run
  client,              \* this.client : Null or the id of a RealtimeClient
  connected,           \* this.connected
  reconnectAttempts,   \* this.reconnectAttempts
  heartbeatInterval,   \* this.heartbeatInterval : Null or 1 (an interval is set)
  timers,              \* pending setTimeout callbacks of attemptReconnect, in
                       \* scheduling order: [delay, stale]
  transport,           \* per RealtimeClient: "none", "connecting", "open", "closed"
  nextClient,          \* number of RealtimeClient objects created so far
  callerConnect,       \* the client whose connect() promise the caller awaits
  oLast,               \* history: the handler that ran last
  oEmitted,            \* history: callbacks it invoked, in order
  oSent,               \* history: transport calls it issued, in order
  oRaised,             \* history: an exception left it towards its caller
  oErrorMsg,           \* history: the message of the error event it handled
                       \* (<<>> when it was no error event)
  oConnectVia,         \* history: who began the connect() that has just
                       \* resolved ("caller" or "timer"), kept through the
                       \* triggerResponse() of the onConnected handler; else "none"
  firedStale,          \* history: the timer that fired last predates a disconnect()
  staleClients,        \* history: clients such timers created, still opening
  episodeDelays,       \* history: delays scheduled since reconnectAttempts was 0
  consecFails,         \* history: connect() failures in a row
  oHistory,            \* history: the callbacks and transport calls of the last
                       \* transport event handler, in the order it made them,
                       \* and whether the event came from a client that is no
                       \* longer this.client
  \* ---- Auto-VAD session (GeminiVoiceClient.ts)
  session,             \* this.session : Null or the id of a live session
  gConnected,          \* this.connected
  keepaliveInterval,   \* this.keepaliveInterval : Null or 1 (an interval is set)
  modelSpeaking,       \* this.modelSpeaking
  kaRemaining,         \* ms until the keepalive interval's next tick
  gTransport,          \* per session: "none", "connecting", "open",
                       \* "closingLocal" (close() was called), "closingRemote"
                       \* (error or connection loss), "closed"
  nextSession,         \* number of live.connect() calls so far
  gCallerConnect,      \* the session whose connect() promise the caller awaits
  responding,          \* history: sessions whose model turn has begun and has
                       \* neither completed nor been interrupted
  sinceTurnComplete,   \* history: ms since a turn completed on the connected
                       \* session (capped)
  kaAge,               \* history: ms since the keepalive interval was created
                       \* (capped)
  disconnectCalled,    \* history: disconnect() has been called
  lastDisconnected,    \* history: the session the last disconnect() closed
  discEvents,          \* history: onDisconnected calls due to the last disconnect()
  gLast,               \* history: the handler that ran last, and its message
  gEmitted,            \* history: callbacks it invoked, in order
  gSent,               \* history: transport calls it issued, in order
  gRaised,             \* history: an exception left it towards its caller
  gHistory,            \* history: disconnect() was called since the caller's
                       \* last connect(); the samples of the keepalive frame
                       \* the last handler sent (<<>> when it sent none)
  \* ---- Resampler/Filter and Codec Bridge (audioUtils.ts)
  dsp,                 \* the inputs of the calls and what they returned
  \* ---- Recording and inactivity timer (SimliVoiceAvatar.tsx)
  avatar               \* the refs of the component and the history of its handlers

dispatchVars == <<audioChunkQueue, isProcessingChunk, sinkLog, produced,
                  producedSinceInt, sinkSinceInt, discarded, interruptions, dLast>>

configVars == <<aiSpeaksFirst, timerCap>>

openaiVars == <<client, connected, reconnectAttempts, heartbeatInterval, timers,
                transport, nextClient, callerConnect, oLast, oEmitted, oSent,
                oRaised, oErrorMsg, oConnectVia, firedStale, staleClients, episodeDelays, consecFails,
                oHistory>>

geminiVars == <<session, gConnected, keepaliveInterval, modelSpeaking,
                kaRemaining, gTransport, nextSession, gCallerConnect, responding,
                sinceTurnComplete, kaAge, disconnectCalled, lastDisconnected,
                discEvents, gLast, gEmitted, gSent, gRaised, gHistory>>

dspVars == <<dsp>>

\* The fields of dsp.
\* the PCM frame the calls are made with
audioData == dsp.audioData
\* the rates the calls are made with
sourceRateHz == dsp.sourceRateHz
targetRateHz == dsp.targetRateHz
\* the function called last
dspLast == dsp.dspLast
\* what downsampleAudio returned
resampled == dsp.resampled
\* what applyLowPassFilter returned
filtered == dsp.filtered
\* what int16ArrayToBase64 returned
encoded == dsp.encoded
\* what base64ToInt16Array returned
decoded == dsp.decoded
\* the frames a session handed to callbacks.onAudioData
dspEmitted == dsp.dspEmitted

recorderVars == <<avatar>>

\* The fields of avatar.
voiceClientRef == avatar.voiceClientRef           \* Null or the voice client
isVoiceConnectedRef == avatar.isVoiceConnectedRef
audioContextRef == avatar.audioContextRef         \* Null or the open AudioContext
streamRef == avatar.streamRef                     \* Null or the microphone stream
processorRef == avatar.processorRef               \* Null or a ScriptProcessor
inactivityTimerRef == avatar.inactivityTimerRef   \* Null or a timer id
\* the ScriptProcessors still connected to their graph
processors == avatar.processors
\* startRecording() calls waiting for getUserMedia
mediaPending == avatar.mediaPending
\* startRecording() calls made so far
recordings == avatar.recordings
\* inactivity timers set so far (the last timer id)
timersSet == avatar.timersSet
\* the pending inactivity timers, [id, remaining]
pendingTimers == avatar.pendingTimers
\* history: recording has started and was not stopped since
interacting == avatar.interacting
\* history: ms since recording started or the last loud frame
quietFor == avatar.quietFor
\* history: disconnect() calls made on a voice client
voiceDisconnects == avatar.voiceDisconnects
\* history: the last handler passed its microphone frame to sendAudio
micSent == avatar.micSent
\* history: the handler that ran last
rLast == avatar.rLast

vars == <<dispatchVars, configVars, openaiVars, geminiVars, dspVars, recorderVars>>

\* What the handlers of one component leave alone.
DispatchFrame == UNCHANGED <<configVars, openaiVars, geminiVars, dspVars, recorderVars>>
OpenAIFrame == UNCHANGED <<configVars, dispatchVars, geminiVars, dspVars, recorderVars>>
GeminiFrame == UNCHANGED <<configVars, dispatchVars, openaiVars, dspVars, recorderVars>>
DSPFrame == UNCHANGED <<configVars, dispatchVars, openaiVars, geminiVars, recorderVars>>
RecorderFrame == UNCHANGED <<configVars, dispatchVars, openaiVars, geminiVars, dspVars>>

(***************************************************************************)
(* Chunk Dispatcher                                                        *)
(***************************************************************************)
\* The dispatcher's mutable state while one handler runs.
DispatchState == [queue |-> audioChunkQueue, processing |-> isProcessingChunk,
                  sink |-> <<>>]

\* Mutant of HandOff: the in-progress flag is not reset after the hand-off.
HandOffKeepsFlag(d) ==
  [queue |-> Tail(d.queue), processing |-> TRUE,
   sink |-> Append(d.sink, Head(d.queue))]

\* Lines 111-123: set the flag, shift() the head, hand it to the sink
\* (sendAudioData returns immediately, section 6), reset the flag.
HandOff(d) ==
  LET flagged == [d EXCEPT !.processing = TRUE]
      chunk   == Head(flagged.queue)
      shifted == [flagged EXCEPT !.queue = Tail(@)]
      sent    == [shifted EXCEPT !.sink = Append(@, chunk)]
  IN  [sent EXCEPT !.processing = FALSE]

\* processNextAudioChunk: guard of lines 107-110, then the hand-off and the
\* recursive call of line 124.
RECURSIVE processNextAudioChunk(_)
processNextAudioChunk(d) ==
  IF Len(d.queue) > 0 /\ ~d.processing
  THEN processNextAudioChunk(HandOff(d))
  ELSE d

\* onAudioData (lines 242-247): push, then dispatch unless one is in progress.
OnAudioDataResult(d, frame) ==
  LET pushed == [d EXCEPT !.queue = Append(@, frame)]
  IN  IF ~pushed.processing THEN processNextAudioChunk(pushed) ELSE pushed

OnAudioData(frame) ==
  /\ Len(produced) < MaxFrames
  /\ LET r == OnAudioDataResult(DispatchState, frame)
     IN  /\ audioChunkQueue' = r.queue
         /\ isProcessingChunk' = r.processing
         /\ sinkLog' = sinkLog \o r.sink
         /\ sinkSinceInt' = sinkSinceInt \o r.sink
  /\ produced' = Append(produced, frame)
  /\ producedSinceInt' = Append(producedSinceInt, frame)
  /\ dLast' = "onAudioData"
  /\ UNCHANGED <<discarded, interruptions>>
  /\ DispatchFrame

\* Mutant of OnInterruptionResult: the flag is left set instead of reset.
OnInterruptionSetsFlag(d) ==
  [d EXCEPT !.queue = <<>>, !.processing = TRUE]

\* onInterruption (lines 251-256): ClearBuffer() acts on the sink's own
\* playback buffer; the queue is emptied and the flag reset.
OnInterruptionResult(d) ==
  [d EXCEPT !.queue = <<>>, !.processing = FALSE]

OnInterruption ==
  /\ LET r == OnInterruptionResult(DispatchState)
     IN  /\ audioChunkQueue' = r.queue
         /\ isProcessingChunk' = r.processing
         /\ sinkLog' = sinkLog \o r.sink
         /\ sinkSinceInt' = r.sink
         /\ discarded' = discarded \o
              SubSeq(audioChunkQueue, 1, Len(audioChunkQueue) - Len(r.queue) - Len(r.sink))
  /\ producedSinceInt' = <<>>
  /\ interruptions' = 1
  /\ dLast' = "onInterruption"
  /\ UNCHANGED produced
  /\ DispatchFrame

\* Lines 111-115 when sendAudioData throws: the flag is set, the head is
\* shifted out, and the exception leaves processNextAudioChunk before the
\* flag is reset (there is no try block around the call).
HandOffThrows(d) ==
  LET flagged == [d EXCEPT !.processing = TRUE]
  IN  [flagged EXCEPT !.queue = Tail(@)]

\* onAudioData (lines 242-247) when the sink throws on the hand-off: the
\* exception leaves the handler towards the session that called it.
OnAudioDataSinkThrows(frame) ==
  /\ Len(produced) < MaxFrames
  /\ ~isProcessingChunk
  /\ LET pushed == [DispatchState EXCEPT !.queue = Append(@, frame)]
         r == HandOffThrows(pushed)
     IN  /\ audioChunkQueue' = r.queue
         /\ isProcessingChunk' = r.processing
  /\ produced' = Append(produced, frame)
  /\ producedSinceInt' = Append(producedSinceInt, frame)
  /\ dLast' = "onAudioDataThrew"
  /\ UNCHANGED <<sinkLog, sinkSinceInt, discarded, interruptions>>
  /\ DispatchFrame

InitDispatch ==
  /\ audioChunkQueue = <<>>
  /\ isProcessingChunk = FALSE
  /\ sinkLog = <<>>
  /\ produced = <<>>
  /\ producedSinceInt = <<>>
  /\ sinkSinceInt = <<>>
  /\ discarded = <<>>
  /\ interruptions = 0
  /\ dLast = "init"

NextDispatch ==
  \/ \E f \in FrameKinds : OnAudioData(f)
  \/ OnInterruption

\* The dispatcher with a sink whose sendAudioData may throw.
NextSink ==
  \/ \E f \in FrameKinds : OnAudioData(f)
  \/ \E f \in FrameKinds : OnAudioDataSinkThrows(f)
  \/ OnInterruption

(***************************************************************************)
(* Explicit-Trigger session: OpenAIVoiceClient                             *)
(***************************************************************************)
Clients == 1..MaxClients

\* Mutant of Caught: the call is not inside a try block.
Uncaught(threw) == threw

\* try { call } catch (e) { ... }: whether an exception leaves the statement
\* when the call inside it threw (threw) or returned.  Every transport call
\* of the two sessions is made inside such a statement, and no catch block
\* throws again.
Caught(threw) == FALSE

Min(a, b) == IF a < b THEN a ELSE b

\* Mutant of Backoff: the 30000 ms cap is missing.
BackoffUncapped(attempt) == 1000 * 2^attempt

\* line 243: Math.min(30000, 1000 * Math.pow(2, attempt))
Backoff(attempt) == Min(30000, 1000 * 2^attempt)

\* The fields a handler of the session may change, while it runs.
OState == [connected |-> connected, reconnectAttempts |-> reconnectAttempts,
           heartbeatInterval |-> heartbeatInterval, timers |-> timers,
           episodeDelays |-> episodeDelays]

\* clearHeartbeat (lines 225-230)
clearHeartbeat(s) ==
  IF s.heartbeatInterval # Null THEN [s EXCEPT !.heartbeatInterval = Null] ELSE s

\* startHeartbeat (lines 209-223); c is this.client
startHeartbeat(s, c) ==
  IF c = Null THEN clearHeartbeat(s)
  ELSE [clearHeartbeat(s) EXCEPT !.heartbeatInterval = 1]

\* Mutant of attemptReconnect: the attempt is counted but no timer is set.
attemptReconnectWithoutTimer(s) ==
  IF s.connected THEN s
  ELSE IF s.reconnectAttempts >= RECONNECT_MAX_ATTEMPTS THEN s
  ELSE [clearHeartbeat(s) EXCEPT !.reconnectAttempts = s.reconnectAttempts + 1]

\* Mutant of attemptReconnect: the cap test is > instead of >=.
attemptReconnectOffByOne(s) ==
  IF s.connected THEN s
  ELSE IF s.reconnectAttempts > RECONNECT_MAX_ATTEMPTS THEN s
  ELSE LET attempt == s.reconnectAttempts + 1
       IN  [clearHeartbeat(s) EXCEPT
              !.reconnectAttempts = attempt,
              !.timers = Append(@, [delay |-> Backoff(attempt), stale |-> FALSE]),
              !.episodeDelays = Append(@, Backoff(attempt))]

\* attemptReconnect (lines 234-263) up to the setTimeout call: the timer's
\* callback is ReconnectTimer below.
attemptReconnect(s) ==
  IF s.connected THEN s
  ELSE IF s.reconnectAttempts >= RECONNECT_MAX_ATTEMPTS THEN s
  ELSE LET attempt == s.reconnectAttempts + 1
           backoffMs == Backoff(attempt)
       IN  [clearHeartbeat(s) EXCEPT
              !.reconnectAttempts = attempt,
              !.timers = Append(@, [delay |-> backoffMs, stale |-> FALSE]),
              !.episodeDelays = Append(@, backoffMs)]

\* Writes a handler's result back to the session's fields.
OStore(s) ==
  /\ connected' = s.connected
  /\ reconnectAttempts' = s.reconnectAttempts
  /\ heartbeatInterval' = s.heartbeatInterval
  /\ timers' = s.timers
  /\ episodeDelays' = s.episodeDelays

\* client?.disconnect() on RealtimeClient c: an open transport is closed; a
\* transport still being opened is not affected by the call itself (its
\* connect() settles later, either way).
TearDown(tr, c) ==
  IF c # Null /\ tr[c] = "open" THEN [tr EXCEPT ![c] = "closed"] ELSE tr

\* connect() from its start to `await this.client.connect()` (lines 29-126):
\* a new RealtimeClient replaces this.client, the handlers are registered and
\* the transport starts opening.
ConnectBegin(tr) ==
  /\ nextClient < MaxClients
  /\ Cardinality({c \in Clients : tr[c] \in {"connecting", "open"}}) < MaxLive
  /\ nextClient' = nextClient + 1
  /\ client' = nextClient + 1
  /\ transport' = [tr EXCEPT ![nextClient + 1] = "connecting"]

\* What a transport event handler adds to the history of the session.
ONote(calls, stale) == oHistory' = [calls |-> calls, stale |-> stale]
ONoteNothing == ONote(<<>>, FALSE)

\* The caller calls connect(): from Idle / Disconnected / Failed, and not
\* while a connect() of its own is still awaited.
OConnect ==
  /\ ~connected
  /\ callerConnect = Null
  /\ ConnectBegin(transport)
  /\ callerConnect' = nextClient + 1
  /\ consecFails' = 0
  /\ oLast' = "connect"
  /\ oEmitted' = <<>>
  /\ oSent' = <<>>
  /\ UNCHANGED <<connected, reconnectAttempts, heartbeatInterval,
                 timers, firedStale, staleClients, episodeDelays>>
  /\ oErrorMsg' = <<>>
  /\ oConnectVia' = "none"
  /\ oRaised' = Caught(FALSE)
  /\ ONoteNothing
  /\ OpenAIFrame

\* `await this.client.connect()` of client c resolves (lines 127-131).
OConnectResolved(c) ==
  /\ transport[c] = "connecting"
  /\ transport' = [transport EXCEPT ![c] = "open"]
  /\ OStore([startHeartbeat([OState EXCEPT !.connected = TRUE,
                                           !.reconnectAttempts = 0], client)
               EXCEPT !.episodeDelays = <<>>])
  /\ callerConnect' = IF callerConnect = c THEN Null ELSE callerConnect
  /\ consecFails' = 0
  /\ oLast' = "connectResolved"
  /\ oEmitted' = <<"onConnected">>
  /\ oSent' = <<>>
  /\ firedStale' = (c \in staleClients)
  /\ staleClients' = staleClients \ {c}
  /\ UNCHANGED <<client, nextClient>>
  /\ oErrorMsg' = <<>>
  /\ oConnectVia' = IF callerConnect = c THEN "caller" ELSE "timer"
  /\ oRaised' = Caught(FALSE)
  /\ ONoteNothing
  /\ OpenAIFrame

\* `await this.client.connect()` of client c rejects: the catch block
\* (lines 132-139).
OConnectRejected(c) ==
  /\ transport[c] = "connecting"
  /\ Len(timers) < timerCap
  /\ transport' = [transport EXCEPT ![c] = "closed"]
  /\ OStore(attemptReconnect([OState EXCEPT !.connected = FALSE]))
  /\ callerConnect' = IF callerConnect = c THEN Null ELSE callerConnect
  /\ consecFails' = Min(consecFails + 1, MaxClients)
  /\ oLast' = "connectRejected"
  /\ oEmitted' = <<"onError">>
  /\ oSent' = <<>>
  /\ firedStale' = (c \in staleClients)
  /\ staleClients' = staleClients \ {c}
  /\ UNCHANGED <<client, nextClient>>
  /\ oErrorMsg' = <<>>
  /\ oConnectVia' = "none"
  /\ oRaised' = Caught(TRUE)
  /\ ONoteNothing
  /\ OpenAIFrame

\* disconnect() (lines 142-153).  The pending backoff timers are not
\* cancelled: the code keeps no handle of them.
ODisconnect(threw) ==
  /\ threw => client # Null
  /\ OStore([clearHeartbeat([OState EXCEPT !.connected = FALSE])
               EXCEPT !.reconnectAttempts = 0,
                      !.episodeDelays = <<>>,
                      !.timers = [i \in DOMAIN timers |->
                                    [timers[i] EXCEPT !.stale = TRUE]]])
  /\ transport' = TearDown(transport, client)
  /\ client' = Null
  /\ consecFails' = 0
  /\ oLast' = "disconnect"
  /\ oEmitted' = <<"onDisconnected">>
  /\ oSent' = IF client # Null THEN <<"disconnect">> ELSE <<>>
  /\ firedStale' = FALSE
  /\ UNCHANGED <<nextClient, callerConnect, staleClients>>
  /\ oErrorMsg' = <<>>
  /\ oConnectVia' = "none"
  /\ oRaised' = Caught(threw)
  /\ ONoteNothing
  /\ OpenAIFrame

\* The setTimeout callback of attemptReconnect (lines 248-262) up to the
\* await inside connect().  Timer i may fire when no timer scheduled before
\* it has a delay that is not longer (that one is due first).  connect()
\* catches its own failures, so the callback's catch block never runs.
OReconnectTimer(i) ==
  /\ i \in DOMAIN timers
  /\ \A j \in 1..(i - 1) : timers[j].delay > timers[i].delay
  /\ ConnectBegin(TearDown(transport, client))
  /\ timers' = [k \in 1..(Len(timers) - 1) |->
                  IF k < i THEN timers[k] ELSE timers[k + 1]]
  /\ firedStale' = timers[i].stale
  /\ staleClients' = IF timers[i].stale THEN staleClients \cup {nextClient + 1}
                     ELSE staleClients
  /\ oLast' = "reconnectTimer"
  /\ oEmitted' = <<>>
  /\ oSent' = IF client # Null THEN <<"disconnect">> ELSE <<>>
  /\ UNCHANGED <<connected, reconnectAttempts, heartbeatInterval,
                 callerConnect, episodeDelays, consecFails>>
  /\ oErrorMsg' = <<>>
  /\ oConnectVia' = "none"
  /\ oRaised' = FALSE
  /\ ONoteNothing
  /\ OpenAIFrame

\* Texts are sequences of characters, as far as lines 95-103 look at them.
\* The messages the transport's error events carry in this model:
\* "Not Connected"
MsgNotConnected ==
  <<"N", "o", "t", " ", "C", "o", "n", "n", "e", "c", "t", "e", "d">>

\* "Session Expired"
MsgSessionExpired ==
  <<"S", "e", "s", "s", "i", "o", "n", " ", "E", "x", "p", "i", "r", "e",
     "d">>

\* "Please Reconnect"
MsgPleaseReconnect ==
  <<"P", "l", "e", "a", "s", "e", " ", "R", "e", "c", "o", "n", "n", "e",
     "c", "t">>

\* "Invalid session.voice"
MsgSessionParam ==
  <<"I", "n", "v", "a", "l", "i", "d", " ", "s", "e", "s", "s", "i", "o",
     "n", ".", "v", "o", "i", "c", "e">>

\* "Rate limit exceeded"
MsgRateLimit ==
  <<"R", "a", "t", "e", " ", "l", "i", "m", "i", "t", " ", "e", "x", "c",
     "e", "e", "d", "e", "d">>

ErrorMessages == {MsgNotConnected,
                  MsgSessionExpired,
                  MsgPleaseReconnect,
                  MsgSessionParam,
                  MsgRateLimit}

\* String.prototype.toLowerCase, one character
LowerChar(ch) ==
  CASE ch = "A" -> "a" [] ch = "B" -> "b" [] ch = "C" -> "c"
    [] ch = "D" -> "d" [] ch = "E" -> "e" [] ch = "F" -> "f"
    [] ch = "G" -> "g" [] ch = "H" -> "h" [] ch = "I" -> "i"
    [] ch = "J" -> "j" [] ch = "K" -> "k" [] ch = "L" -> "l"
    [] ch = "M" -> "m" [] ch = "N" -> "n" [] ch = "O" -> "o"
    [] ch = "P" -> "p" [] ch = "Q" -> "q" [] ch = "R" -> "r"
    [] ch = "S" -> "s" [] ch = "T" -> "t" [] ch = "U" -> "u"
    [] ch = "V" -> "v" [] ch = "W" -> "w" [] ch = "X" -> "x"
    [] ch = "Y" -> "y" [] ch = "Z" -> "z"
    [] OTHER -> ch

\* String.prototype.toLowerCase
toLowerCase(text) == [k \in 1..Len(text) |-> LowerChar(text[k])]

\* String.prototype.includes: needle occurs in text as a substring
includes(text, needle) ==
  \E k \in 1..(Len(text) - Len(needle) + 1) :
    SubSeq(text, k, k + Len(needle) - 1) = needle

\* The substrings of lines 100-103
SubNotConnected ==
  <<"n", "o", "t", " ", "c", "o", "n", "n", "e", "c", "t", "e", "d">>
SubSession ==
  <<"s", "e", "s", "s", "i", "o", "n">>
SubExpired ==
  <<"e", "x", "p", "i", "r", "e", "d">>
SubReconnect ==
  <<"r", "e", "c", "o", "n", "n", "e", "c", "t">>

\* Mutant of shouldReconnect: the message is not lower-cased before the
\* tests, and the "reconnect" test is missing.
shouldReconnectCaseSensitive(msg) ==
  \/ includes(msg, SubNotConnected)
  \/ includes(msg, SubSession)
  \/ includes(msg, SubExpired)

\* lines 99-103
shouldReconnect(msg) ==
  \/ includes(toLowerCase(msg), SubNotConnected)
  \/ includes(toLowerCase(msg), SubSession)
  \/ includes(toLowerCase(msg), SubExpired)
  \/ includes(toLowerCase(msg), SubReconnect)

\* The value of shouldReconnect for each message of the model.
Reconnectable == [msg \in ErrorMessages |-> shouldReconnect(msg)]

\* A RealtimeClient whose handlers can still be called by its transport.
Live(c) == transport[c] \in {"connecting", "open"}

\* client.on("error") (lines 91-108), delivered by client c.
OErrorEvent(c, msg) ==
  /\ Live(c)
  /\ Len(timers) < timerCap
  /\ LET s == [OState EXCEPT !.connected = FALSE]
     IN  OStore(IF Reconnectable[msg] THEN attemptReconnect(s) ELSE s)
  /\ oLast' = "errorEvent"
  /\ oEmitted' = <<"onError">>
  /\ oSent' = <<>>
  /\ firedStale' = FALSE
  /\ UNCHANGED <<client, transport, nextClient, callerConnect,
                 staleClients, consecFails>>
  /\ oErrorMsg' = msg
  /\ oConnectVia' = "none"
  /\ oRaised' = FALSE
  /\ ONoteNothing
  /\ OpenAIFrame

\* Mutant of InterruptedCalls: the cancel request is issued before the
\* callback is invoked.
InterruptedCancelsFirst(c) ==
  IF c = Null THEN <<"onInterruption">> ELSE <<"cancelResponse", "onInterruption">>

\* The calls of the conversation.interrupted handler (lines 77-83), in
\* order; c is this.client.
InterruptedCalls(c) ==
  IF c = Null THEN <<"onInterruption">> ELSE <<"onInterruption", "cancelResponse">>

\* The callbacks among the calls of a handler, and its transport calls.
Callbacks(calls) == SelectSeq(calls, LAMBDA x : x = "onInterruption")
TransportCalls(calls) == SelectSeq(calls, LAMBDA x : x # "onInterruption")

\* client.on("conversation.interrupted") (lines 75-84), delivered by client
\* c; threw says that client.cancelResponse threw.
OConversationInterrupted(c, threw) ==
  /\ transport[c] = "open"
  /\ threw => client # Null
  /\ oEmitted' = Callbacks(InterruptedCalls(client))
  /\ oSent' = TransportCalls(InterruptedCalls(client))
  /\ ONote(InterruptedCalls(client), c # client)
  /\ oLast' = "conversationInterrupted"
  /\ firedStale' = FALSE
  /\ UNCHANGED <<client, connected, reconnectAttempts,
                 heartbeatInterval, timers, transport, nextClient, callerConnect,
                 staleClients, episodeDelays, consecFails>>
  /\ oErrorMsg' = <<>>
  /\ oConnectVia' = "none"
  /\ oRaised' = Caught(threw)
  /\ OpenAIFrame

\* client.on("session_updated") (lines 111-124), delivered by client c.
OSessionUpdated(c, status) ==
  /\ Live(c)
  /\ Len(timers) < timerCap
  /\ IF status \in {"closed", "error"}
     THEN OStore(attemptReconnect([OState EXCEPT !.connected = FALSE]))
     ELSE OStore(OState)
  /\ oLast' = "sessionUpdated"
  /\ oEmitted' = <<>>
  /\ oSent' = <<>>
  /\ firedStale' = FALSE
  /\ UNCHANGED <<client, transport, nextClient, callerConnect,
                 staleClients, consecFails>>
  /\ oErrorMsg' = <<>>
  /\ oConnectVia' = "none"
  /\ oRaised' = FALSE
  /\ ONoteNothing
  /\ OpenAIFrame

\* The network drops an open transport; the session registers no handler
\* for that and is not told.
OTransportDrop(c) ==
  /\ transport[c] = "open"
  /\ transport' = [transport EXCEPT ![c] = "closed"]
  /\ oLast' = "transportDrop"
  /\ oEmitted' = <<>>
  /\ oSent' = <<>>
  /\ firedStale' = FALSE
  /\ UNCHANGED <<client, connected, reconnectAttempts,
                 heartbeatInterval, timers, nextClient, callerConnect,
                 staleClients, episodeDelays, consecFails>>
  /\ oErrorMsg' = <<>>
  /\ oConnectVia' = "none"
  /\ oRaised' = FALSE
  /\ ONoteNothing
  /\ OpenAIFrame

\* sendAudio (lines 155-175).  appendInputAudio on a transport that is not
\* open throws "... not connected"; on an open one it returns, or throws
\* some other error.
OSendAudio(outcome) ==
  /\ IF connected /\ client # Null
     THEN /\ outcome \in (IF transport[client] = "open"
                          THEN {"ok", "throwOther"} ELSE {"throwNotConnected"})
          /\ oSent' = <<"appendInputAudio">>
          /\ IF outcome = "throwNotConnected"
             THEN /\ OStore([OState EXCEPT !.connected = FALSE])
                  /\ oEmitted' = <<"onError">>
             ELSE /\ OStore(OState)
                  /\ oEmitted' = <<>>
     ELSE /\ outcome = "ok"
          /\ oSent' = <<>>
          /\ oEmitted' = <<>>
          /\ OStore(OState)
  /\ oLast' = "sendAudio"
  /\ firedStale' = FALSE
  /\ UNCHANGED <<client, transport, nextClient, callerConnect,
                 staleClients, consecFails>>
  /\ oErrorMsg' = <<>>
  /\ oConnectVia' = "none"
  /\ oRaised' = Caught(outcome # "ok")
  /\ ONoteNothing
  /\ OpenAIFrame

\* Mutant of TriggerResponseCalls: the greeting is injected whatever the flag.
TriggerResponseAlwaysInjects(c, speaksFirst) ==
  IF c = Null THEN <<>> ELSE <<"sendUserMessageContent">>

\* Mutant of TriggerResponseCalls: after the injected message the session
\* requests a generation of its own as well.
TriggerResponseInjectsAndRequests(c, speaksFirst) ==
  IF c = Null THEN <<>>
  ELSE IF speaksFirst THEN <<"sendUserMessageContent", "createResponse">>
  ELSE <<"createResponse">>

\* The transport calls of triggerResponse (lines 177-193); c is this.client.
\* A call that throws is caught and still was issued.
TriggerResponseCalls(c, speaksFirst) ==
  IF speaksFirst
  THEN (IF c = Null THEN <<>> ELSE <<"sendUserMessageContent">>)
  ELSE (IF c = Null THEN <<>> ELSE <<"createResponse">>)

OTriggerResponse(threw) ==
  /\ threw => client # Null
  /\ oSent' = TriggerResponseCalls(client, aiSpeaksFirst)
  /\ oLast' = "triggerResponse"
  /\ oEmitted' = <<>>
  /\ firedStale' = FALSE
  /\ UNCHANGED <<client, connected, reconnectAttempts,
                 heartbeatInterval, timers, transport, nextClient, callerConnect,
                 staleClients, episodeDelays, consecFails>>
  /\ oErrorMsg' = <<>>
  /\ oConnectVia' = IF oLast = "connectResolved" THEN oConnectVia ELSE "none"
  /\ oRaised' = Caught(threw)
  /\ ONoteNothing
  /\ OpenAIFrame

\* Mutant of CancelResponseCalls: the cancel request is issued, and issued
\* again when it is not known to have arrived.
CancelResponseRepeats(c) ==
  IF c = Null THEN <<>> ELSE <<"cancelResponse", "cancelResponse">>

\* The transport calls of cancelResponse (line 197); c is this.client.
CancelResponseCalls(c) == IF c = Null THEN <<>> ELSE <<"cancelResponse">>

\* cancelResponse (lines 195-201)
OCancelResponse(threw) ==
  /\ threw => client # Null
  /\ oSent' = CancelResponseCalls(client)
  /\ oLast' = "cancelResponse"
  /\ oEmitted' = <<>>
  /\ firedStale' = FALSE
  /\ UNCHANGED <<client, connected, reconnectAttempts,
                 heartbeatInterval, timers, transport, nextClient, callerConnect,
                 staleClients, episodeDelays, consecFails>>
  /\ oErrorMsg' = <<>>
  /\ oConnectVia' = "none"
  /\ oRaised' = Caught(threw)
  /\ ONoteNothing
  /\ OpenAIFrame

\* One run of the heartbeat interval's callback (lines 212-222); hasSendEvent
\* says whether the client object exposes sendEvent.
OHeartbeatTick(hasSendEvent) ==
  /\ heartbeatInterval # Null
  /\ oSent' = IF client # Null /\ hasSendEvent THEN <<"sendEvent">> ELSE <<>>
  /\ oLast' = "heartbeatTick"
  /\ oEmitted' = <<>>
  /\ firedStale' = FALSE
  /\ UNCHANGED <<client, connected, reconnectAttempts,
                 heartbeatInterval, timers, transport, nextClient, callerConnect,
                 staleClients, episodeDelays, consecFails>>
  /\ oErrorMsg' = <<>>
  /\ oConnectVia' = "none"
  /\ oRaised' = FALSE
  /\ ONoteNothing
  /\ OpenAIFrame

NextOpenAI ==
  \/ OConnect
  \/ \E c \in Clients : OConnectResolved(c)
  \/ \E c \in Clients : OConnectRejected(c)
  \/ \E threw \in BOOLEAN : ODisconnect(threw)
  \/ \E i \in DOMAIN timers : OReconnectTimer(i)
  \/ \E c \in Clients, msg \in ErrorMessages : OErrorEvent(c, msg)
  \/ \E c \in Clients, st \in {"closed", "error", "active"} : OSessionUpdated(c, st)
  \/ \E c \in Clients, threw \in BOOLEAN : OConversationInterrupted(c, threw)
  \/ \E c \in Clients : OTransportDrop(c)
  \/ \E o \in {"ok", "throwOther", "throwNotConnected"} : OSendAudio(o)
  \/ \E threw \in BOOLEAN : OTriggerResponse(threw)
  \/ \E threw \in BOOLEAN : OCancelResponse(threw)
  \/ \E b \in BOOLEAN : OHeartbeatTick(b)

(***************************************************************************)
(* Auto-VAD session: GeminiVoiceClient                                     *)
(***************************************************************************)
Sessions == 1..MaxSessions

\* line 128: the period of the keepalive interval, in ms
KEEPALIVE_MS == 2000

\* Time passes in steps of half a keepalive period; the history clocks stop
\* counting at two periods.
TimeStep == KEEPALIVE_MS \div 2
ClockCap == 2 * KEEPALIVE_MS

\* line 115: the samples of the keepalive frame
KEEPALIVE_SAMPLES == 160
Silence == [i \in 1..KEEPALIVE_SAMPLES |-> 0] @@ <<>>

\* What a handler adds to the history of the session.
GNote(disconnected, frame) ==
  gHistory' = [disconnectedSinceConnect |-> disconnected, keepaliveFrame |-> frame]
GNoteNothing == GNote(gHistory.disconnectedSinceConnect, <<>>)

\* The fields a handler of the session may change, while it runs.
GState == [connected |-> gConnected, keepaliveInterval |-> keepaliveInterval,
           modelSpeaking |-> modelSpeaking, kaRemaining |-> kaRemaining,
           kaAge |-> kaAge, emitted |-> <<>>]

\* stopKeepalive (lines 144-149)
stopKeepalive(s) ==
  IF s.keepaliveInterval # Null
  THEN [s EXCEPT !.keepaliveInterval = Null, !.kaRemaining = 0, !.kaAge = 0]
  ELSE s

\* startKeepalive (lines 109-129): the old interval is cleared and a new one
\* is set, whose first tick is a full period away.
startKeepalive(s) ==
  [stopKeepalive(s) EXCEPT !.keepaliveInterval = 1,
                           !.kaRemaining = KEEPALIVE_MS,
                           !.kaAge = 0]

\* Mutant of resetKeepalive: the running interval is left to continue.
resetKeepaliveContinues(s) == s

\* resetKeepalive (lines 135-139)
resetKeepalive(s) == IF s.connected THEN startKeepalive(s) ELSE s

\* Mutant of ConnectionLost: the loss is not reported.
ConnectionLostUnreported(s, callback) == [s EXCEPT !.connected = FALSE]

\* What onerror (lines 66-70), onclose (71-75), the catch block of connect()
\* (84-90) and the connection-loss branch of sendAudio's catch (163-170) do:
\* the connected flag is cleared and one callback reports the loss.  None
\* of them calls connect().
ConnectionLost(s, callback) ==
  [s EXCEPT !.connected = FALSE, !.emitted = <<callback>>]

\* Writes a handler's result back to the session's fields.
GStore(s) ==
  /\ gConnected' = s.connected
  /\ keepaliveInterval' = s.keepaliveInterval
  /\ modelSpeaking' = s.modelSpeaking
  /\ kaRemaining' = s.kaRemaining
  /\ kaAge' = s.kaAge
  /\ gEmitted' = s.emitted

\* A session whose callbacks its WebSocket can still call with a message.
GOpen(h) == gTransport[h] = "open"

\* The caller calls connect() (lines 28-77, up to the await): from Idle or
\* Disconnected, and not while a connect() of its own is still awaited.
\* this.session is assigned only when live.connect() resolves.
GConnect ==
  /\ ~gConnected
  /\ gCallerConnect = Null
  /\ nextSession < MaxSessions
  /\ nextSession' = nextSession + 1
  /\ gTransport' = [gTransport EXCEPT ![nextSession + 1] = "connecting"]
  /\ gCallerConnect' = nextSession + 1
  /\ GStore(GState)
  /\ gLast' = <<"connect">>
  /\ gSent' = <<>>
  /\ UNCHANGED <<session, responding, sinceTurnComplete, disconnectCalled,
                 lastDisconnected, discEvents>>
  /\ gRaised' = Caught(FALSE)
  /\ GNote(FALSE, <<>>)
  /\ GeminiFrame

\* live.connect() of session h resolves (lines 34, 79-83).
GConnectResolved(h) ==
  /\ gTransport[h] = "connecting"
  /\ gTransport' = [gTransport EXCEPT ![h] = "open"]
  /\ session' = h
  /\ GStore([startKeepalive([GState EXCEPT !.connected = TRUE])
               EXCEPT !.emitted = <<"onConnected">>])
  /\ gCallerConnect' = IF gCallerConnect = h THEN Null ELSE gCallerConnect
  /\ gLast' = <<"connectResolved">>
  /\ gSent' = <<>>
  /\ UNCHANGED <<nextSession, responding, sinceTurnComplete, disconnectCalled,
                 lastDisconnected, discEvents>>
  /\ gRaised' = Caught(FALSE)
  /\ GNoteNothing
  /\ GeminiFrame

\* live.connect() of session h rejects: the catch block (lines 84-90).
GConnectRejected(h) ==
  /\ gTransport[h] = "connecting"
  /\ gTransport' = [gTransport EXCEPT ![h] = "closed"]
  /\ GStore(ConnectionLost(GState, "onError"))
  /\ gCallerConnect' = IF gCallerConnect = h THEN Null ELSE gCallerConnect
  /\ gLast' = <<"connectRejected">>
  /\ gSent' = <<>>
  /\ UNCHANGED <<session, nextSession, responding, sinceTurnComplete,
                 disconnectCalled, lastDisconnected, discEvents>>
  /\ gRaised' = Caught(TRUE)
  /\ GNoteNothing
  /\ GeminiFrame

\* disconnect() (lines 93-103).  close() on an open session starts the
\* WebSocket's closing handshake, whose end the transport reports through
\* the onclose callback.
GDisconnect(threw) ==
  /\ threw => session # Null
  /\ GStore([stopKeepalive([GState EXCEPT !.connected = FALSE])
               EXCEPT !.emitted = <<"onDisconnected">>])
  /\ gTransport' = IF session # Null /\ gTransport[session] = "open"
                   THEN [gTransport EXCEPT ![session] = "closingLocal"]
                   ELSE gTransport
  /\ gSent' = IF session # Null THEN <<"close">> ELSE <<>>
  /\ session' = Null
  /\ responding' = responding \ {session}
  /\ disconnectCalled' = TRUE
  /\ lastDisconnected' = IF session # Null /\ gTransport[session] = "open"
                         THEN session ELSE Null
  /\ discEvents' = 1
  /\ gLast' = <<"disconnect">>
  /\ UNCHANGED <<nextSession, gCallerConnect, sinceTurnComplete>>
  /\ gRaised' = Caught(threw)
  /\ GNote(TRUE, <<>>)
  /\ GeminiFrame

\* callbacks.onclose (lines 71-75), called by session h when its WebSocket
\* has closed: after close(), after an error, or because the server closed.
GOnClose(h) ==
  /\ gTransport[h] \in {"open", "closingLocal", "closingRemote"}
  /\ gTransport' = [gTransport EXCEPT ![h] = "closed"]
  /\ GStore(ConnectionLost(GState, "onDisconnected"))
  /\ responding' = responding \ {h}
  /\ discEvents' = IF gTransport[h] = "closingLocal" /\ h = lastDisconnected
                   THEN discEvents + 1 ELSE discEvents
  /\ gLast' = <<"onclose">>
  /\ gSent' = <<>>
  /\ UNCHANGED <<session, nextSession, gCallerConnect, sinceTurnComplete,
                 disconnectCalled, lastDisconnected>>
  /\ gRaised' = FALSE
  /\ GNoteNothing
  /\ GeminiFrame

\* callbacks.onerror (lines 66-70), called by session h; a WebSocket that
\* reports an error closes next.
GOnError(h) ==
  /\ gTransport[h] = "open"
  /\ gTransport' = [gTransport EXCEPT ![h] = "closingRemote"]
  /\ GStore(ConnectionLost(GState, "onError"))
  /\ responding' = responding \ {h}
  /\ gLast' = <<"onerror">>
  /\ gSent' = <<>>
  /\ UNCHANGED <<session, nextSession, gCallerConnect, sinceTurnComplete,
                 disconnectCalled, lastDisconnected, discEvents>>
  /\ gRaised' = FALSE
  /\ GNoteNothing
  /\ GeminiFrame

\* The connection of session h is lost; its onclose follows.
GTransportDrop(h) ==
  /\ gTransport[h] = "open"
  /\ gTransport' = [gTransport EXCEPT ![h] = "closingRemote"]
  /\ responding' = responding \ {h}
  /\ GStore(GState)
  /\ gLast' = <<"transportDrop">>
  /\ gSent' = <<>>
  /\ UNCHANGED <<session, nextSession, gCallerConnect, sinceTurnComplete,
                 disconnectCalled, lastDisconnected, discEvents>>
  /\ gRaised' = FALSE
  /\ GNoteNothing
  /\ GeminiFrame

\* The shapes of the messages a session delivers to onmessage: the fields
\* handleMessage reads.  parts is the number of audio parts of
\* serverContent.modelTurn (hasParts: the model turn is present at all).
NoMessage == [setupComplete |-> FALSE, interrupted |-> FALSE, hasParts |-> FALSE,
              parts |-> 0, inputTranscript |-> FALSE, turnComplete |-> FALSE]

GMessages ==
  { [NoMessage EXCEPT !.setupComplete = TRUE],
    [NoMessage EXCEPT !.interrupted = TRUE],
    [NoMessage EXCEPT !.hasParts = TRUE, !.parts = 1],
    [NoMessage EXCEPT !.hasParts = TRUE, !.parts = 2, !.turnComplete = TRUE],
    [NoMessage EXCEPT !.inputTranscript = TRUE],
    [NoMessage EXCEPT !.turnComplete = TRUE] }

\* The onAudioData calls of the loop over the parts (lines 226-238).
AudioCalls(n) == [i \in 1..n |-> "onAudioData"]

\* handleMessage (lines 207-259)
handleMessage(s, msg) ==
  IF msg.setupComplete THEN s
  ELSE IF msg.interrupted
  THEN [s EXCEPT !.modelSpeaking = FALSE, !.emitted = <<"onInterruption">>]
  ELSE LET s1 == IF msg.hasParts
                 THEN [s EXCEPT !.modelSpeaking = TRUE,
                                !.emitted = AudioCalls(msg.parts)]
                 ELSE s
           s2 == IF msg.inputTranscript
                 THEN [s1 EXCEPT !.emitted = Append(@, "onUserTranscript")]
                 ELSE s1
       IN  IF msg.turnComplete
           THEN resetKeepalive([s2 EXCEPT !.modelSpeaking = FALSE])
           ELSE s2

\* What the message says about the turn of the session that sent it: it is
\* under way from its first model-turn message to its turn-complete or
\* interrupted message.
TurnUnderWay(was, msg) ==
  IF msg.setupComplete THEN was
  ELSE IF msg.interrupted \/ msg.turnComplete THEN FALSE
  ELSE IF msg.hasParts THEN TRUE
  ELSE was

\* callbacks.onmessage (lines 63-65), called by session h.
GMessage(h, msg) ==
  /\ GOpen(h)
  /\ GStore(handleMessage(GState, msg))
  /\ responding' = IF TurnUnderWay(h \in responding, msg)
                   THEN responding \cup {h} ELSE responding \ {h}
  /\ sinceTurnComplete' =
       IF msg.turnComplete /\ ~msg.setupComplete /\ ~msg.interrupted /\ gConnected
       THEN 0 ELSE sinceTurnComplete
  /\ gLast' = <<"onmessage", msg>>
  /\ gSent' = <<>>
  /\ UNCHANGED <<session, gTransport, nextSession, gCallerConnect,
                 disconnectCalled, lastDisconnected, discEvents>>
  /\ gRaised' = FALSE
  /\ GNoteNothing
  /\ GeminiFrame

\* The test of the keepalive callback (line 112).
KeepaliveSends(conn, sess, speaking) == conn /\ sess # Null /\ ~speaking

\* One run of the keepalive interval's callback (lines 111-128): it is due
\* when KEEPALIVE_MS have passed since the interval was set or last ran.
\* The frame is 160 zero samples; a send that throws is caught.
GKeepaliveTick ==
  /\ keepaliveInterval # Null
  /\ kaRemaining = 0
  /\ kaRemaining' = KEEPALIVE_MS
  /\ gSent' = IF KeepaliveSends(gConnected, session, modelSpeaking)
              THEN <<"sendRealtimeInput">> ELSE <<>>
  /\ gLast' = <<"keepaliveTick">>
  /\ gEmitted' = <<>>
  /\ UNCHANGED <<session, gConnected, keepaliveInterval, modelSpeaking,
                 gTransport, nextSession, gCallerConnect, responding,
                 sinceTurnComplete, kaAge, disconnectCalled, lastDisconnected,
                 discEvents>>
  /\ gRaised' = FALSE
  /\ GNote(gHistory.disconnectedSinceConnect,
           IF KeepaliveSends(gConnected, session, modelSpeaking) THEN Silence ELSE <<>>)
  /\ GeminiFrame

\* TimeStep ms pass; a due keepalive tick runs first.
GAdvance ==
  /\ keepaliveInterval # Null => kaRemaining > 0
  /\ kaRemaining' = IF keepaliveInterval # Null THEN kaRemaining - TimeStep
                    ELSE kaRemaining
  /\ kaAge' = IF keepaliveInterval # Null THEN Min(ClockCap, kaAge + TimeStep)
              ELSE kaAge
  /\ sinceTurnComplete' = Min(ClockCap, sinceTurnComplete + TimeStep)
  /\ gLast' = <<"advance">>
  /\ gEmitted' = <<>>
  /\ gSent' = <<>>
  /\ UNCHANGED <<session, gConnected, keepaliveInterval, modelSpeaking,
                 gTransport, nextSession, gCallerConnect, responding,
                 disconnectCalled, lastDisconnected, discEvents>>
  /\ gRaised' = FALSE
  /\ GNoteNothing
  /\ GeminiFrame

\* sendAudio (lines 151-172).  sendRealtimeInput on a session that is not
\* open throws "... closed"; on an open one it returns, or throws some
\* other error.
GSendAudio(outcome) ==
  /\ IF gConnected /\ session # Null
     THEN /\ outcome \in (IF GOpen(session) THEN {"ok", "throwOther"}
                          ELSE {"throwClosed"})
          /\ gSent' = <<"sendRealtimeInput">>
          /\ IF outcome = "throwClosed"
             THEN GStore(ConnectionLost(GState, "onError"))
             ELSE GStore(GState)
     ELSE /\ outcome = "ok"
          /\ gSent' = <<>>
          /\ GStore(GState)
  /\ gLast' = <<"sendAudio">>
  /\ UNCHANGED <<session, gTransport, nextSession, gCallerConnect, responding,
                 sinceTurnComplete, disconnectCalled, lastDisconnected,
                 discEvents>>
  /\ gRaised' = Caught(outcome # "ok")
  /\ GNoteNothing
  /\ GeminiFrame

\* Mutant of GTriggerResponseCalls: the aiSpeaksFirst flag is not tested.
GTriggerResponseIgnoresFlag(speaksFirst, conn, sess) ==
  IF conn /\ sess # Null THEN <<"sendClientContent">> ELSE <<>>

\* Mutant of GTriggerResponseCalls: the method is the no-op it is without
\* the aiSpeaksFirst flag.
GTriggerResponseNoOp(speaksFirst, conn, sess) == <<>>

\* The transport calls of triggerResponse (lines 174-192).
GTriggerResponseCalls(speaksFirst, conn, sess) ==
  IF speaksFirst /\ conn /\ sess # Null THEN <<"sendClientContent">> ELSE <<>>

GTriggerResponse(threw) ==
  /\ threw => GTriggerResponseCalls(aiSpeaksFirst, gConnected, session) # <<>>
  /\ gSent' = GTriggerResponseCalls(aiSpeaksFirst, gConnected, session)
  /\ GStore(GState)
  /\ gLast' = <<"triggerResponse">>
  /\ UNCHANGED <<session, gTransport, nextSession, gCallerConnect, responding,
                 sinceTurnComplete, disconnectCalled, lastDisconnected,
                 discEvents>>
  /\ gRaised' = Caught(threw)
  /\ GNoteNothing
  /\ GeminiFrame

\* cancelResponse (lines 194-198): empty.
GCancelResponse ==
  /\ GStore(GState)
  /\ gLast' = <<"cancelResponse">>
  /\ gSent' = <<>>
  /\ UNCHANGED <<session, gTransport, nextSession, gCallerConnect, responding,
                 sinceTurnComplete, disconnectCalled, lastDisconnected,
                 discEvents>>
  /\ gRaised' = FALSE
  /\ GNoteNothing
  /\ GeminiFrame

NextGemini ==
  \/ GConnect
  \/ \E h \in Sessions : GConnectResolved(h)
  \/ \E h \in Sessions : GConnectRejected(h)
  \/ \E threw \in BOOLEAN : GDisconnect(threw)
  \/ \E h \in Sessions : GOnClose(h)
  \/ \E h \in Sessions : GOnError(h)
  \/ \E h \in Sessions : GTransportDrop(h)
  \/ \E h \in Sessions, msg \in GMessages : GMessage(h, msg)
  \/ GKeepaliveTick
  \/ GAdvance
  \/ \E o \in {"ok", "throwOther", "throwClosed"} : GSendAudio(o)
  \/ \E threw \in BOOLEAN : GTriggerResponse(threw)
  \/ GCancelResponse

(***************************************************************************)
(* Resampler/Filter and Codec Bridge: app/voice/audioUtils.ts              *)
(***************************************************************************)
\* Sample rates (Hz) the resampler is called with in this model.
Rates == {7000, 9000, 16000, 24000}

\* The 16-bit sample values frames are built from.
SampleValues == {-32768, -1, 0, 255, 32767}

RECURSIVE SeqsUpTo(_, _)
SeqsUpTo(S, n) ==
  IF n = 0 THEN {<<>>}
  ELSE LET shorter == SeqsUpTo(S, n - 1)
       IN  shorter \cup {Append(f, v) : f \in {g \in shorter : Len(g) = n - 1},
                                        v \in S}

\* The PCM frames of the model: every frame of up to MaxVaried samples, and
\* the longer frames of one repeated value.
Frames ==
  SeqsUpTo(SampleValues, MaxVaried)
    \cup {[i \in 1..n |-> v] : n \in (MaxVaried + 1)..MaxSamples, v \in {0, 255}}

\* Binary64 arithmetic (ECMAScript Number), as far as audioUtils.ts uses it
\* on non-negative values.  A double is [m, e], of value m * 2^e, where m is
\* zero or an integer of exactly 53 bits.  Integers of up to 66 bits are kept
\* as six limbs of 11 bits, least significant first.
LimbBase == 2^11
Limbs == 1..6
BigZero == <<0, 0, 0, 0, 0, 0>>

\* k < 2^31
BigFromInt(k) ==
  <<k % LimbBase, (k \div LimbBase) % LimbBase, k \div (LimbBase * LimbBase),
    0, 0, 0>>

DoubleLimb(a, bit, i) ==
  (2 * a[i] + (IF i = 1 THEN bit
               ELSE IF a[i - 1] >= LimbBase \div 2 THEN 1 ELSE 0)) % LimbBase

\* 2 * a + bit
BigDouble(a, bit) ==
  <<DoubleLimb(a, bit, 1), DoubleLimb(a, bit, 2), DoubleLimb(a, bit, 3),
    DoubleLimb(a, bit, 4), DoubleLimb(a, bit, 5), DoubleLimb(a, bit, 6)>>

HalfLimb(a, i) ==
  a[i] \div 2 + (IF i < 6 /\ a[i + 1] % 2 = 1 THEN LimbBase \div 2 ELSE 0)

\* a \div 2
BigHalf(a) ==
  <<HalfLimb(a, 1), HalfLimb(a, 2), HalfLimb(a, 3),
    HalfLimb(a, 4), HalfLimb(a, 5), HalfLimb(a, 6)>>

BigLess(a, b) ==
  \E i \in Limbs : a[i] < b[i] /\ \A j \in Limbs : j > i => a[j] = b[j]

SubLimb(a, b, i) ==
  LET borrow == IF \E k \in 1..(i - 1) :
                     a[k] < b[k] /\ \A j \in (k + 1)..(i - 1) : a[j] = b[j]
                THEN 1 ELSE 0
  IN  (a[i] - b[i] - borrow + LimbBase) % LimbBase

\* a - b, for a >= b
BigSub(a, b) ==
  <<SubLimb(a, b, 1), SubLimb(a, b, 2), SubLimb(a, b, 3),
    SubLimb(a, b, 4), SubLimb(a, b, 5), SubLimb(a, b, 6)>>

SuccLimb(a, i) ==
  IF \A j \in 1..(i - 1) : a[j] = LimbBase - 1
  THEN (a[i] + 1) % LimbBase ELSE a[i]

\* a + 1
BigSucc(a) ==
  <<SuccLimb(a, 1), SuccLimb(a, 2), SuccLimb(a, 3),
    SuccLimb(a, 4), SuccLimb(a, 5), SuccLimb(a, 6)>>

RECURSIVE BigMulFrom(_, _, _, _)
BigMulFrom(a, k, i, carry) ==
  IF i > 6 THEN <<>>
  ELSE <<(a[i] * k + carry) % LimbBase>>
         \o BigMulFrom(a, k, i + 1, (a[i] * k + carry) \div LimbBase)

\* a * k, for k < 2^13
BigMulSmall(a, k) == BigMulFrom(a, k, 1, 0)

\* a >= 2^bits, for bits in 44..54
AtLeastPow2(a, bits) == a[6] > 0 \/ a[5] >= 2^(bits - 44)

DoubleZero == [m |-> BigZero, e |-> 0]

\* Towards 54 significant bits: m * 2^e (+ a non-zero amount below one unit
\* of m when sticky) keeps its value while m is doubled or halved.
ScaleStep(s) ==
  IF s.m = BigZero \/ (AtLeastPow2(s.m, 53) /\ ~AtLeastPow2(s.m, 54)) THEN s
  ELSE IF AtLeastPow2(s.m, 54)
  THEN [m |-> BigHalf(s.m), e |-> s.e + 1,
        sticky |-> s.sticky \/ s.m[1] % 2 = 1]
  ELSE [m |-> BigDouble(s.m, 0), e |-> s.e - 1, sticky |-> s.sticky]

ScaleSteps(s) ==
  ScaleStep(ScaleStep(ScaleStep(ScaleStep(
    ScaleStep(ScaleStep(ScaleStep(ScaleStep(s))))))))

RECURSIVE Scale(_)
Scale(s) == IF ScaleStep(s) = s THEN s ELSE Scale(ScaleSteps(s))

\* Round to nearest, ties to even, from 54 bits to the 53 of a double.
RoundScaled(s) ==
  IF s.m = BigZero THEN DoubleZero
  ELSE LET half == BigHalf(s.m)
           up == s.m[1] % 2 = 1 /\ (s.sticky \/ half[1] % 2 = 1)
           r == IF up THEN BigSucc(half) ELSE half
       IN  IF AtLeastPow2(r, 53) THEN [m |-> BigHalf(r), e |-> s.e + 2]
           ELSE [m |-> r, e |-> s.e + 1]

\* The double nearest to m * 2^e; m is exact, or has at least 54 bits and a
\* non-zero remainder below it (sticky).
RoundToDouble(m, e, sticky) ==
  RoundScaled(Scale([m |-> m, e |-> e, sticky |-> sticky]))

DoubleFromInt(k) == RoundToDouble(BigFromInt(k), 0, FALSE)

\* Long division, one quotient bit per step, until the quotient has 54 bits.
DivStep(s) ==
  IF AtLeastPow2(s.q, 53) THEN s
  ELSE LET r2 == BigDouble(s.rem, 0)
       IN  IF BigLess(r2, s.b)
           THEN [rem |-> r2, b |-> s.b, q |-> BigDouble(s.q, 0), j |-> s.j + 1]
           ELSE [rem |-> BigSub(r2, s.b), b |-> s.b, q |-> BigDouble(s.q, 1),
                 j |-> s.j + 1]

DivSteps(s) ==
  DivStep(DivStep(DivStep(DivStep(DivStep(DivStep(DivStep(DivStep(s))))))))

RECURSIVE DivBits(_)
DivBits(s) == IF AtLeastPow2(s.q, 53) THEN s ELSE DivBits(DivSteps(s))

DivRounded(d, e) == RoundToDouble(d.q, e - d.j, d.rem # BigZero)

\* x / y, for y > 0
DoubleDiv(x, y) ==
  IF x.m = BigZero THEN DoubleZero
  ELSE IF BigLess(x.m, y.m)
  THEN DivRounded(DivBits([rem |-> x.m, b |-> y.m, q |-> BigZero, j |-> 0]),
                  x.e - y.e)
  ELSE DivRounded(DivBits([rem |-> BigSub(x.m, y.m), b |-> y.m,
                           q |-> BigFromInt(1), j |-> 0]),
                  x.e - y.e)

\* x * k for an integer 0 <= k < 2^13
DoubleMulInt(x, k) == RoundToDouble(BigMulSmall(x.m, k), x.e, FALSE)

\* Math.floor(x), for x < 2^31
DoubleFloor(x) ==
  IF x.m = BigZero \/ x.e <= -53 THEN 0
  ELSE LET r == -x.e
           d == r \div 11
           b == r % 11
           Term(i) == IF i <= 5 THEN x.m[i] * 2^(11 * (i - d - 1) - b) ELSE 0
       IN  x.m[d + 1] \div 2^b + Term(d + 2) + Term(d + 3) + Term(d + 4)

\* x - Math.floor(x) = 0, for x < 2^31
DoubleIsInteger(x) ==
  \/ x.m = BigZero
  \/ /\ x.e > -53
     /\ LET r == -x.e
            d == r \div 11
            b == r % 11
        IN  /\ \A i \in 1..d : x.m[i] = 0
            /\ x.m[d + 1] % 2^b = 0

DownPairs == {p \in Rates \X Rates : p[1] > p[2]}

\* line 82: const ratio = inputSampleRate / outputSampleRate
Ratio ==
  [p \in DownPairs |-> DoubleDiv(DoubleFromInt(p[1]), DoubleFromInt(p[2]))] @@ <<>>

\* Mutant of NewLength: the result keeps the length of the input.
NewLengthOfInput ==
  [p \in DownPairs |-> [n \in 0..MaxSamples |-> n]]

\* line 83: Math.floor(audioData.length / ratio), tabulated for the rate
\* pairs and frame lengths of the model
NewLength ==
  [p \in DownPairs |->
     [n \in 0..MaxSamples |->
        DoubleFloor(DoubleDiv(DoubleFromInt(n), Ratio[p]))] @@ <<>>] @@ <<>>

PositionOf(position) ==
  [index |-> DoubleFloor(position), whole |-> DoubleIsInteger(position)]

\* lines 88-90: position = i * ratio, index = Math.floor(position) and
\* whether fraction = position - index is zero, tabulated
Position ==
  [p \in DownPairs |->
     [i \in 0..MaxSamples |->
        PositionOf(DoubleMulInt(Ratio[p], i))] @@ <<>>] @@ <<>>

\* line 11
NumberOfTaps == 31
\* line 14
Middle == (NumberOfTaps - 1) \div 2

\* The filter's arithmetic is followed up to what decides whether a value is
\* zero: a number is "zero" (+0 or -0), "nan", or "finite" (any other number,
\* or a sum the model does not evaluate).
\* lines 13-32: the coefficients after normalisation.  For a positive cutoff
\* and rate every tap is a finite non-zero number; for a cutoff of 0 every tap
\* is 0 before normalisation, their sum is 0 and every tap becomes 0 / 0.
CoefficientKind(cutoffFreq, sampleRate) ==
  IF cutoffFreq = 0 \/ sampleRate = 0 THEN "nan" ELSE "finite"

\* line 41: coefficients[j] * data[idx]
Times(coefficient, sample) ==
  IF coefficient = "nan" THEN "nan"
  ELSE IF sample = 0 THEN "zero" ELSE "finite"

\* line 41: sum += ...
Plus(a, b) ==
  IF a = "nan" \/ b = "nan" THEN "nan"
  ELSE IF a = "zero" /\ b = "zero" THEN "zero" ELSE "finite"

\* lines 38-43; i and j count from 0 as in the source
RECURSIVE FilterSum(_, _, _, _, _)
FilterSum(data, coefficient, i, j, sum) ==
  IF j = NumberOfTaps THEN sum
  ELSE LET idx == i - j + Middle
       IN  FilterSum(data, coefficient, i, j + 1,
                     IF idx >= 0 /\ idx < Len(data)
                     THEN Plus(sum, Times(coefficient, data[idx + 1]))
                     ELSE sum)

\* Mutant of StoreInt16: a NaN is not stored as 0.
StoreInt16KeepsNaN(x) == IF x = "zero" THEN "zero" ELSE "unknown"

\* line 44: result[i] = Math.round(sum).  An Int16Array element takes 0 for
\* +0, -0 and NaN; the sample is "zero" or "unknown".
StoreInt16(x) == IF x = "finite" THEN "unknown" ELSE "zero"

\* applyLowPassFilter (lines 6-47)
applyLowPassFilter(data, cutoffFreq, sampleRate) ==
  [i \in 1..Len(data) |->
     StoreInt16(FilterSum(data, CoefficientKind(cutoffFreq, sampleRate),
                          i - 1, 0, "zero"))]

\* lines 92-98: one output sample; a read past the end of filteredData
\* gives undefined, which the result array stores as 0.
Interpolate(filteredData, position) ==
  IF position.index + 1 < Len(filteredData)
  THEN LET a == filteredData[position.index + 1]
           b == filteredData[position.index + 2]
       IN  IF a = "zero" /\ (position.whole \/ b = "zero")
           THEN "zero" ELSE "unknown"
  ELSE IF position.index < Len(filteredData)
       THEN filteredData[position.index + 1]
       ELSE "undefined"

\* What the model keeps of a frame that is returned as it is.
KindOfSample(v) == IF v = 0 THEN "zero" ELSE "unknown"

\* line 67
IsUpsampling(inputSampleRate, outputSampleRate) ==
  inputSampleRate < outputSampleRate

\* Mutant of downsampleAudio: the frame is returned as it is, whatever the
\* rates.
passThrough(audio, inputSampleRate, outputSampleRate) ==
  [threw |-> FALSE, same |-> TRUE,
   samples |-> [i \in 1..Len(audio) |-> KindOfSample(audio[i])]]

\* downsampleAudio (lines 58-99): threw, whether the input array itself is
\* returned, and the samples of the returned array.
downsampleAudio(audio, inputSampleRate, outputSampleRate) ==
  IF inputSampleRate = outputSampleRate
  THEN [threw |-> FALSE, same |-> TRUE,
        samples |-> [i \in 1..Len(audio) |-> KindOfSample(audio[i])]]
  ELSE IF IsUpsampling(inputSampleRate, outputSampleRate)
  THEN [threw |-> TRUE, same |-> FALSE, samples |-> <<>>]
  ELSE LET p == <<inputSampleRate, outputSampleRate>>
           filteredData == applyLowPassFilter(audio, 45 * outputSampleRate,
                                              inputSampleRate)
           newLength == NewLength[p][Len(audio)]
       IN  [threw |-> FALSE, same |-> FALSE,
            samples |-> [i \in 1..newLength |->
                           Interpolate(filteredData, Position[p][i - 1])]]

\* The base64 alphabet of btoa and atob.
Alphabet ==
  <<"A", "B", "C", "D", "E", "F", "G", "H", "I", "J", "K", "L", "M",
    "N", "O", "P", "Q", "R", "S", "T", "U", "V", "W", "X", "Y", "Z",
    "a", "b", "c", "d", "e", "f", "g", "h", "i", "j", "k", "l", "m",
    "n", "o", "p", "q", "r", "s", "t", "u", "v", "w", "x", "y", "z",
    "0", "1", "2", "3", "4", "5", "6", "7", "8", "9", "+", "/">>

\* The bytes of an Int16Array's buffer (line 118): two's complement, low
\* byte first.
RECURSIVE BytesOf(_)
BytesOf(audio) ==
  IF audio = <<>> THEN <<>>
  ELSE LET u == (Head(audio) + 65536) % 65536
       IN  <<u % 256, u \div 256>> \o BytesOf(Tail(audio))

\* btoa, on the character codes of a binary string
RECURSIVE btoa(_)
btoa(binary) ==
  IF Len(binary) = 0 THEN <<>>
  ELSE IF Len(binary) = 1
  THEN <<Alphabet[binary[1] \div 4 + 1],
         Alphabet[(binary[1] % 4) * 16 + 1], "=", "=">>
  ELSE IF Len(binary) = 2
  THEN <<Alphabet[binary[1] \div 4 + 1],
         Alphabet[(binary[1] % 4) * 16 + binary[2] \div 16 + 1],
         Alphabet[(binary[2] % 16) * 4 + 1], "=">>
  ELSE <<Alphabet[binary[1] \div 4 + 1],
         Alphabet[(binary[1] % 4) * 16 + binary[2] \div 16 + 1],
         Alphabet[(binary[2] % 16) * 4 + binary[3] \div 64 + 1],
         Alphabet[(binary[3] % 64) + 1]>>
         \o btoa(SubSeq(binary, 4, Len(binary)))

\* int16ArrayToBase64 (lines 117-125): String.fromCharCode(byte) is the
\* character of code byte.
int16ArrayToBase64(audio) == btoa(BytesOf(audio))

Sextet(ch) == CHOOSE k \in 0..63 : Alphabet[k + 1] = ch

\* atob, to the character codes of the binary string
RECURSIVE atob(_)
atob(base64) ==
  IF base64 = <<>> THEN <<>>
  ELSE LET s1 == Sextet(base64[1])
           s2 == Sextet(base64[2])
           rest == SubSeq(base64, 5, Len(base64))
       IN  IF base64[3] = "=" THEN <<s1 * 4 + s2 \div 16>>
           ELSE IF base64[4] = "="
           THEN <<s1 * 4 + s2 \div 16,
                  (s2 % 16) * 16 + Sextet(base64[3]) \div 4>>
           ELSE <<s1 * 4 + s2 \div 16,
                  (s2 % 16) * 16 + Sextet(base64[3]) \div 4,
                  (Sextet(base64[3]) % 4) * 64 + Sextet(base64[4])>>
                  \o atob(rest)

\* Mutant of ToInt16: the element is read as an unsigned number.
ToUint16(u) == u

\* An Int16Array element: the 16 bits as a two's complement number.
ToInt16(u) == IF u >= 32768 THEN u - 65536 ELSE u

RECURSIVE SamplesOf(_)
SamplesOf(bytes) ==
  IF bytes = <<>> THEN <<>>
  ELSE <<ToInt16(bytes[1] + 256 * bytes[2])>>
         \o SamplesOf(SubSeq(bytes, 3, Len(bytes)))

\* base64ToInt16Array (lines 105-112): new Int16Array(buffer) throws a
\* RangeError when the buffer's byte length is odd.
base64ToInt16Array(base64) ==
  LET bytes == atob(base64)
  IN  IF Len(bytes) % 2 = 1 THEN [threw |-> TRUE, samples |-> <<>>]
      ELSE [threw |-> FALSE, samples |-> SamplesOf(bytes)]

NoResult == [threw |-> FALSE, same |-> FALSE, samples |-> <<>>]

\* What one call leaves in the result variables of this component.  The
\* functions keep no state, so a run makes one call with its inputs (and a
\* decoding of what an encoding returned).
DSPResult(op, r, f, e, d, frames) ==
  dsp' = [dsp EXCEPT !.dspLast = op, !.resampled = r, !.filtered = f,
                     !.encoded = e, !.decoded = d, !.dspEmitted = frames]

\* downsampleAudio(audioData, sourceRateHz, targetRateHz)
DownsampleAudio ==
  /\ dspLast = "init"
  /\ DSPResult("downsampleAudio",
               downsampleAudio(audioData, sourceRateHz, targetRateHz),
               <<>>, <<>>, <<>>, <<>>)
  /\ DSPFrame

\* applyLowPassFilter(audioData, cutoffFreq, sourceRateHz); the cutoff is
\* given in hundredths of a Hz.
ApplyLowPassFilter(cutoffFreq) ==
  /\ dspLast = "init"
  /\ DSPResult("applyLowPassFilter", NoResult,
               applyLowPassFilter(audioData, cutoffFreq, sourceRateHz),
               <<>>, <<>>, <<>>)
  /\ DSPFrame

\* int16ArrayToBase64(audioData)
Int16ArrayToBase64 ==
  /\ dspLast = "init"
  /\ DSPResult("int16ArrayToBase64", NoResult, <<>>,
               int16ArrayToBase64(audioData), <<>>, <<>>)
  /\ DSPFrame

\* base64ToInt16Array, of the string the call before returned
Base64ToInt16Array ==
  /\ dspLast = "int16ArrayToBase64"
  /\ DSPResult("base64ToInt16Array", NoResult, <<>>, encoded,
               base64ToInt16Array(encoded).samples, <<>>)
  /\ DSPFrame

\* GeminiVoiceClient.handleMessage, the loop body for one audio part (lines
\* 227-237) whose inlineData.data encodes audioData: the frames handed to
\* callbacks.onAudioData.  An empty string is falsy, so a part without
\* samples is skipped (line 227).
GeminiAudioPart ==
  /\ dspLast = "init"
  /\ LET data == int16ArrayToBase64(audioData)
         raw == base64ToInt16Array(data)
         downsampled == downsampleAudio(raw.samples, 24000, 16000)
     IN  DSPResult("geminiAudioPart", NoResult, <<>>, <<>>, <<>>,
                   IF data = <<>> \/ raw.threw \/ downsampled.threw THEN <<>>
                   ELSE <<downsampled>>)
  /\ DSPFrame

\* OpenAIVoiceClient, the conversation.updated handler for an assistant
\* message whose delta.audio is audioData (lines 62-66).
OpenAIAudioDelta ==
  /\ dspLast = "init"
  /\ LET downsampled == downsampleAudio(audioData, 24000, 16000)
     IN  DSPResult("openaiAudioDelta", NoResult, <<>>, <<>>, <<>>,
                   IF downsampled.threw THEN <<>> ELSE <<downsampled>>)
  /\ DSPFrame

NextDSP ==
  \/ DownsampleAudio
  \/ \E cutoffFreq \in {0, 45 * targetRateHz} : ApplyLowPassFilter(cutoffFreq)
  \/ Int16ArrayToBase64
  \/ Base64ToInt16Array
  \/ GeminiAudioPart
  \/ OpenAIAudioDelta

InitDSPResults ==
  [dspLast |-> "init", resampled |-> NoResult, filtered |-> <<>>,
   encoded |-> <<>>, decoded |-> <<>>, dspEmitted |-> <<>>]

\* A call's inputs, before the call.
DSPInputs(frame, source, target) ==
  [audioData |-> frame, sourceRateHz |-> source, targetRateHz |-> target]
    @@ InitDSPResults

\* The inputs of the calls: a frame and a pair of rates.
InitDSP ==
  dsp \in {DSPInputs(frame, source, target) :
             frame \in Frames, source \in Rates, target \in Rates}

\* No call is made.
InitDSPIdle == dsp = DSPInputs(<<>>, 24000, 16000)

(***************************************************************************)
(* Recording and inactivity timer (SimliVoiceAvatar.tsx).  The voice       *)
(* client is the environment here: it reports connected (again after each  *)
(* automatic reconnect), errors and disconnections.  Time advances in      *)
(* steps of Tick ms and never past a timer that is due.                    *)
(***************************************************************************)
Tick == INACTIVITY_DURATION \div 2
QuietCap == INACTIVITY_DURATION + Tick

\* clearTimeout(id): a null or already fired id clears nothing.
ClearTimeout(pending, id) == {t \in pending : t.id # id}

\* resetInactivityTimer (lines 157-165).
ResetInactivityTimer(a) ==
  [a EXCEPT
     !.pendingTimers = ClearTimeout(a.pendingTimers, a.inactivityTimerRef)
                         \cup {[id |-> a.timersSet + 1, remaining |-> INACTIVITY_DURATION]},
     !.inactivityTimerRef = a.timersSet + 1,
     !.timersSet = a.timersSet + 1]

\* handleStop (lines 132-152) with stopRecording (lines 65-80).  Closing the
\* AudioContext ends the processing of every ScriptProcessor created on it.
HandleStop(a) ==
  [a EXCEPT
     !.processorRef = Null,
     !.streamRef = Null,
     !.pendingTimers = ClearTimeout(a.pendingTimers, a.inactivityTimerRef),
     !.inactivityTimerRef = Null,
     !.isVoiceConnectedRef = FALSE,
     !.voiceDisconnects = IF a.voiceClientRef # Null THEN @ + 1 ELSE @,
     !.voiceClientRef = Null,
     !.audioContextRef = Null,
     !.processors = {},
     !.interacting = FALSE]

\* What every handler of the component records about itself.
Ran(a, handler, sent) == [a EXCEPT !.rLast = handler, !.micSent = sent]

\* initializeVoiceClient (lines 228-280), run by Simli's "connected" event.
RInitializeVoiceClient ==
  /\ voiceClientRef = Null
  /\ voiceDisconnects < MaxRecordings
  /\ avatar' = Ran([avatar EXCEPT !.voiceClientRef = voiceDisconnects + 1],
                   "initializeVoiceClient", FALSE)
  /\ RecorderFrame

\* onConnected (lines 257-264) up to the await in startRecording (171-179).
ROnConnected ==
  /\ voiceClientRef # Null
  /\ recordings < MaxRecordings
  /\ avatar' = Ran([avatar EXCEPT
                      !.isVoiceConnectedRef = TRUE,
                      !.audioContextRef = IF @ = Null THEN 1 ELSE @,
                      !.mediaPending = @ + 1,
                      !.recordings = @ + 1],
                   "onConnected", FALSE)
  /\ RecorderFrame

\* onError (lines 265-269) and onDisconnected (lines 270-273).
ROnVoiceDown ==
  /\ voiceClientRef # Null
  /\ isVoiceConnectedRef
  /\ avatar' = Ran([avatar EXCEPT !.isVoiceConnectedRef = FALSE],
                   "onDisconnected", FALSE)
  /\ RecorderFrame

\* startRecording after getUserMedia resolved (lines 179-219).  With the
\* AudioContext gone createMediaStreamSource throws and the catch block runs.
RStartRecording ==
  /\ mediaPending > 0
  /\ audioContextRef # Null => timersSet < MaxInactivityTimers
  /\ LET resolved == [avatar EXCEPT !.mediaPending = @ - 1, !.streamRef = 1]
         started  == [ResetInactivityTimer(resolved) EXCEPT
                        !.processorRef = avatar.timersSet + 1,
                        !.processors = @ \cup {avatar.timersSet + 1},
                        !.interacting = TRUE,
                        !.quietFor = IF avatar.interacting THEN @ ELSE 0]
     IN  avatar' = IF audioContextRef = Null
                   THEN Ran(resolved, "startRecordingFailed", FALSE)
                   ELSE Ran(started, "startRecording", FALSE)
  /\ RecorderFrame

\* startRecording after getUserMedia rejected (lines 220-223).
RStartRecordingRejected ==
  /\ mediaPending > 0
  /\ avatar' = Ran([avatar EXCEPT !.mediaPending = @ - 1],
                   "startRecordingFailed", FALSE)
  /\ RecorderFrame

\* onaudioprocess (lines 191-212) of one connected processor; loud says that
\* the frame's mean absolute amplitude exceeds 0.01.
ROnAudioProcess(p, loud) ==
  /\ p \in processors
  /\ loud => timersSet < MaxInactivityTimers
  /\ LET sent == isVoiceConnectedRef /\ voiceClientRef # Null
     IN  avatar' = IF loud
                   THEN Ran([ResetInactivityTimer(avatar) EXCEPT !.quietFor = 0],
                            "onaudioprocess", sent)
                   ELSE Ran(avatar, "onaudioprocess", sent)
  /\ RecorderFrame

\* The inactivity timer's callback (lines 161-164).
RInactivityTimer(t) ==
  /\ t \in pendingTimers
  /\ t.remaining = 0
  /\ avatar' = Ran(HandleStop([avatar EXCEPT !.pendingTimers = @ \ {t}]),
                   "inactivityTimer", FALSE)
  /\ RecorderFrame

\* handleStop run by the Stop button.
RHandleStop ==
  /\ avatar' = Ran(HandleStop(avatar), "handleStop", FALSE)
  /\ RecorderFrame

\* Tick ms pass.
RAdvance ==
  /\ pendingTimers # {} \/ interacting
  /\ \A t \in pendingTimers : t.remaining >= Tick
  /\ avatar' = Ran([avatar EXCEPT
                      !.pendingTimers = {[t EXCEPT !.remaining = @ - Tick] : t \in @},
                      !.quietFor = IF ~avatar.interacting THEN @
                                   ELSE IF @ + Tick > QuietCap THEN QuietCap
                                   ELSE @ + Tick],
                   "advance", FALSE)
  /\ RecorderFrame

\* The assistant's audio reaches the page through onAudioData (lines 242-247).
NextRecorder ==
  \/ RInitializeVoiceClient
  \/ ROnConnected
  \/ ROnVoiceDown
  \/ RStartRecording
  \/ RStartRecordingRejected
  \/ \E p \in 1..MaxInactivityTimers, loud \in BOOLEAN : ROnAudioProcess(p, loud)
  \/ \E t \in pendingTimers : RInactivityTimer(t)
  \/ RHandleStop
  \/ RAdvance
  \/ OnAudioData(1)

InitRecorder ==
  avatar = [voiceClientRef |-> Null,
            isVoiceConnectedRef |-> FALSE,
            audioContextRef |-> Null,
            streamRef |-> Null,
            processorRef |-> Null,
            inactivityTimerRef |-> Null,
            processors |-> {},
            mediaPending |-> 0,
            recordings |-> 0,
            timersSet |-> 0,
            pendingTimers |-> {},
            interacting |-> FALSE,
            quietFor |-> 0,
            voiceDisconnects |-> 0,
            micSent |-> FALSE,
            rLast |-> "init"]

InitConfig == aiSpeaksFirst \in BOOLEAN /\ timerCap = MaxTimers

InitGemini ==
  /\ session = Null
  /\ gConnected = FALSE
  /\ keepaliveInterval = Null
  /\ modelSpeaking = FALSE
  /\ kaRemaining = 0
  /\ gTransport = [h \in Sessions |-> "none"]
  /\ nextSession = 0
  /\ gCallerConnect = Null
  /\ responding = {}
  /\ sinceTurnComplete = ClockCap
  /\ kaAge = 0
  /\ disconnectCalled = FALSE
  /\ lastDisconnected = Null
  /\ discEvents = 0
  /\ gHistory = [disconnectedSinceConnect |-> FALSE, keepaliveFrame |-> <<>>]
  /\ gLast = <<"init">>
  /\ gEmitted = <<>>
  /\ gSent = <<>>
  /\ gRaised = FALSE

InitOpenAI ==
  /\ client = Null
  /\ connected = FALSE
  /\ reconnectAttempts = 0
  /\ heartbeatInterval = Null
  /\ timers = <<>>
  /\ transport = [c \in Clients |-> "none"]
  /\ nextClient = 0
  /\ callerConnect = Null
  /\ oLast = "init"
  /\ oEmitted = <<>>
  /\ oSent = <<>>
  /\ oErrorMsg = <<>>
  /\ oConnectVia = "none"
  /\ oRaised = FALSE
  /\ firedStale = FALSE
  /\ staleClients = {}
  /\ episodeDelays = <<>>
  /\ consecFails = 0
  /\ oHistory = [calls |-> <<>>, stale |-> FALSE]

Init ==
  /\ InitConfig /\ InitDispatch /\ InitOpenAI /\ InitGemini /\ InitDSPIdle
  /\ InitRecorder

InitCalls ==
  /\ aiSpeaksFirst = FALSE
  /\ timerCap = MaxTimers
  /\ InitDispatch /\ InitOpenAI /\ InitGemini /\ InitDSP /\ InitRecorder

SpecDispatch == Init /\ [][NextDispatch]_vars

SpecOpenAI == Init /\ [][NextOpenAI]_vars

SpecGemini == Init /\ [][NextGemini]_vars

SpecDSP == InitCalls /\ [][NextDSP]_vars

SpecRecorder == Init /\ [][NextRecorder]_vars

SpecSink == Init /\ [][NextSink]_vars

\* The Explicit-Trigger session with room for one more pending reconnect
\* timer.
InitReconnect ==
  /\ aiSpeaksFirst = FALSE
  /\ timerCap = MaxTimers + 1
  /\ InitDispatch /\ InitOpenAI /\ InitGemini /\ InitDSPIdle /\ InitRecorder

SpecReconnect == InitReconnect /\ [][NextOpenAI]_vars

\* The Explicit-Trigger session under fair scheduling: a pending backoff
\* timer that can fire does fire (setTimeout, line 248), and an awaited
\* transport connect() settles, one way or the other (line 126).
TimerFires == \E i \in 1..(MaxTimers + 1) : OReconnectTimer(i)
ConnectSettles == \E c \in Clients : OConnectResolved(c) \/ OConnectRejected(c)

\* The session while its caller waits for the outcome: every step of the
\* Explicit-Trigger session but the caller's disconnect().
NextOutage ==
  \/ OConnect
  \/ \E c \in Clients : OConnectResolved(c)
  \/ \E c \in Clients : OConnectRejected(c)
  \/ \E i \in DOMAIN timers : OReconnectTimer(i)
  \/ \E c \in Clients, msg \in ErrorMessages : OErrorEvent(c, msg)
  \/ \E c \in Clients, st \in {"closed", "error", "active"} : OSessionUpdated(c, st)
  \/ \E c \in Clients, threw \in BOOLEAN : OConversationInterrupted(c, threw)
  \/ \E c \in Clients : OTransportDrop(c)
  \/ \E o \in {"ok", "throwOther", "throwNotConnected"} : OSendAudio(o)
  \/ \E threw \in BOOLEAN : OTriggerResponse(threw)
  \/ \E threw \in BOOLEAN : OCancelResponse(threw)
  \/ \E b \in BOOLEAN : OHeartbeatTick(b)

SpecOutage ==
  Init /\ [][NextOutage]_vars /\ WF_vars(TimerFires) /\ WF_vars(ConnectSettles)

(***************************************************************************)
(* Claims about the Chunk Dispatcher (checked under SpecDispatch).         *)
(***************************************************************************)
\* C1: the frames carried by the audio-produced events since the last
\* interruption (all of them when there was none) are exactly the frames the
\* sink has received since then: same frames, same order, each once.
C1_DispatchFIFO ==
  /\ sinkSinceInt = producedSinceInt
  /\ (interruptions = 0 => sinkLog = produced)

\* C1 witness: three events carrying three different frames have been
\* delivered, and the sink holds them in arrival order.
C1_Witness ==
  /\ produced = <<1, 2, 3>>
  /\ sinkLog = <<1, 2, 3>>
  /\ interruptions = 0

C3_StaleTimerNoOp ==
  /\ staleClients = {}
  /\ ~(firedStale /\ oLast \in {"reconnectTimer", "connectResolved",
                                "connectRejected"})

\* The terminal condition of the reconnect loop: not connected, the attempt
\* counter at its cap, no backoff timer pending and no connect() in flight.
Failed ==
  /\ ~connected
  /\ reconnectAttempts = RECONNECT_MAX_ATTEMPTS
  /\ timers = <<>>
  /\ \A c \in Clients : transport[c] # "connecting"

\* C4 as stated: once five connect() calls in a row have failed, no backoff
\* timer is pending and no connect() is in flight.
C4_FiveFailuresAreTerminal ==
  consecFails >= RECONNECT_MAX_ATTEMPTS =>
    /\ timers = <<>>
    /\ \A c \in Clients : transport[c] # "connecting"

\* C4 amended: what is bounded is the number of scheduled reconnects, not of
\* failures.  The attempt counter never exceeds 5, so at most 5 backoff
\* timers are scheduled between two resets of the counter (a connect() that
\* resolves, or disconnect()); and once the session is Failed, every step
\* other than the caller's connect() or disconnect() leaves it Failed,
\* schedules no timer and creates no client.
C4_BoundedReconnect ==
  /\ [](/\ reconnectAttempts <= RECONNECT_MAX_ATTEMPTS
        /\ Len(episodeDelays) = reconnectAttempts)
  /\ [][Failed /\ oLast' \notin {"connect", "disconnect"} =>
          /\ Failed'
          /\ timers' = <<>>
          /\ nextClient' = nextClient]_vars

\* C4 witness: five reconnects were scheduled in one episode, the last one
\* has failed too, and the session is Failed.
C4_Witness ==
  /\ Failed
  /\ oLast = "connectRejected"
  /\ Len(episodeDelays) = RECONNECT_MAX_ATTEMPTS
  /\ consecFails >= RECONNECT_MAX_ATTEMPTS

\* C5: the delays scheduled since the attempt counter was last 0 are the
\* first reconnectAttempts entries of 2000, 4000, 8000, 16000, 30000, in
\* that order, and no pending timer has a delay above 30000 ms.
C5_BackoffSchedule ==
  /\ episodeDelays = SubSeq(<<2000, 4000, 8000, 16000, 30000>>, 1, reconnectAttempts)
  /\ \A i \in DOMAIN timers :
       /\ timers[i].delay <= 30000
       /\ timers[i].delay \in {2000, 4000, 8000, 16000, 30000}

\* C5 witness: all five reconnects of one episode have been scheduled, the
\* fifth with the capped delay, and its timer is pending.
C5_Witness ==
  /\ reconnectAttempts = 5
  /\ episodeDelays = <<2000, 4000, 8000, 16000, 30000>>
  /\ Len(timers) = 1
  /\ timers[1].delay = 30000

\* C10: with aiSpeaksFirst = false, triggerResponse() on a session that has
\* a client issues exactly one createResponse call and nothing else (no
\* injected user message), and invokes no callback.
C10_TriggerRequestsOnce ==
  oLast = "triggerResponse" /\ ~aiSpeaksFirst /\ client # Null =>
    /\ oSent = <<"createResponse">>
    /\ oEmitted = <<>>

\* C10 witness: triggerResponse() has run on a connected session whose
\* transport is open, with aiSpeaksFirst = false.
C10_Witness ==
  /\ oLast = "triggerResponse"
  /\ ~aiSpeaksFirst
  /\ connected
  /\ client # Null
  /\ transport[client] = "open"
  /\ oSent = <<"createResponse">>

(***************************************************************************)
(* Claims about the Auto-VAD session (checked under SpecGemini).           *)
(***************************************************************************)
\* C6: each call of disconnect() results in exactly one disconnected event:
\* the one disconnect() emits, and none from the close callback of the
\* transport that this disconnect() closed.
C6_OneDisconnectedEvent ==
  disconnectCalled => discEvents = 1

\* C7: while a session is not connected, its keepalive interval (Auto-VAD)
\* or heartbeat interval (Explicit-Trigger) is not set.
C7_IntervalsCancelled ==
  /\ (~gConnected => keepaliveInterval = Null)
  /\ (~connected => heartbeatInterval = Null)

\* C8: a keepalive tick that runs while the session's response is under way
\* (after its first model-turn message, before its turn-complete or
\* interrupted message) issues no sendRealtimeInput call.
C8_NoKeepaliveDuringResponse ==
  ~(/\ gLast = <<"keepaliveTick">>
    /\ session # Null
    /\ session \in responding
    /\ gSent # <<>>)

C11_TriggerInjectsOnce ==
  oLast = "triggerResponse" /\ aiSpeaksFirst /\ client # Null =>
    /\ oSent = <<"sendUserMessageContent">>
    /\ oEmitted = <<>>

\* C11 witness: triggerResponse() has run on a connected session whose
\* transport is open, with aiSpeaksFirst = true.
C11_Witness ==
  /\ oLast = "triggerResponse"
  /\ aiSpeaksFirst
  /\ connected
  /\ client # Null
  /\ transport[client] = "open"
  /\ oSent = <<"sendUserMessageContent">>

\* The fields of the Auto-VAD session object, and its transports.
GFields == <<session, gConnected, keepaliveInterval, modelSpeaking,
             kaRemaining, gTransport, nextSession>>

\* C12: with aiSpeaksFirst = false, triggerResponse() on the Auto-VAD
\* session issues no transport call, invokes no callback and leaves every
\* field of the session as it was, whatever the connection state.
C12_GeminiTriggerNoOp ==
  [][gLast' = <<"triggerResponse">> /\ ~aiSpeaksFirst =>
       /\ gSent' = <<>>
       /\ gEmitted' = <<>>
       /\ UNCHANGED GFields]_vars

\* C12 witness: triggerResponse() has run on a connected session whose
\* transport is open, with aiSpeaksFirst = false, and has sent nothing.
C12_Witness ==
  /\ gLast = <<"triggerResponse">>
  /\ ~aiSpeaksFirst
  /\ gConnected
  /\ session # Null
  /\ gTransport[session] = "open"
  /\ gSent = <<>>

\* C13: with aiSpeaksFirst = true, triggerResponse() on a connected session
\* issues exactly one sendClientContent call (the completed user turn) and
\* nothing else; and the session is connected with its handle assigned when
\* connect() has just emitted the connected event, so a triggerResponse()
\* made from that callback sends the turn.
C13_GeminiTriggerSendsTurn ==
  /\ [][gLast' = <<"triggerResponse">> /\ aiSpeaksFirst /\ gConnected
          /\ session # Null
        => gSent' = <<"sendClientContent">> /\ gEmitted' = <<>>]_vars
  /\ [][gLast = <<"connectResolved">> /\ gLast' = <<"triggerResponse">>
          /\ aiSpeaksFirst
        => gSent' = <<"sendClientContent">>]_vars

\* C13 witness: connect() resolved and triggerResponse() has then sent the
\* turn on the open session, with aiSpeaksFirst = true.
C13_Witness ==
  /\ gLast = <<"triggerResponse">>
  /\ aiSpeaksFirst
  /\ gConnected
  /\ session # Null
  /\ gTransport[session] = "open"
  /\ gSent = <<"sendClientContent">>

(***************************************************************************)
(* Claims about the error handling of the Explicit-Trigger session         *)
(* (checked under SpecOpenAI).                                             *)
(***************************************************************************)
\* The step is a run of the error handler that schedules a reconnect timer.
ErrorSchedulesReconnect ==
  /\ oLast' = "errorEvent"
  /\ Len(timers') = Len(timers) + 1
  /\ reconnectAttempts' = reconnectAttempts + 1

\* The step is a run of the error handler that only surfaces the error.
ErrorOnlySurfaced ==
  /\ oLast' = "errorEvent"
  /\ timers' = timers
  /\ reconnectAttempts' = reconnectAttempts

\* The messages of the model whose text, read without regard to case,
\* contains "not connected", "session", "expired" or "reconnect".
IndicatesSessionLoss ==
  {MsgNotConnected, MsgSessionExpired, MsgPleaseReconnect, MsgSessionParam}

\* C14 as stated: the error handler schedules a reconnect timer if and only
\* if the message contains one of the substrings that indicate the loss of
\* the session; every run of the handler emits the error callback.
C14_ReconnectIffIndicated ==
  [][oLast' = "errorEvent" =>
       /\ oEmitted' = <<"onError">>
       /\ (oErrorMsg' \in IndicatesSessionLoss => ErrorSchedulesReconnect)
       /\ (oErrorMsg' \notin IndicatesSessionLoss => ErrorOnlySurfaced)]_vars

\* C14 amended: the error handler schedules a reconnect timer if and only if
\* the lower-cased message contains "not connected", "session", "expired" or
\* "reconnect" and fewer than 5 reconnects have been scheduled since the
\* attempt counter was last reset; otherwise it schedules nothing.  Every run
\* of the handler emits the error callback once and leaves the session not
\* connected.
C14_ReconnectIffIndicatedBelowCap ==
  [][oLast' = "errorEvent" =>
       /\ oEmitted' = <<"onError">>
       /\ ~connected'
       /\ (oErrorMsg' \in IndicatesSessionLoss
             /\ reconnectAttempts < RECONNECT_MAX_ATTEMPTS
           => ErrorSchedulesReconnect)
       /\ (oErrorMsg' \notin IndicatesSessionLoss
             \/ reconnectAttempts >= RECONNECT_MAX_ATTEMPTS
           => ErrorOnlySurfaced)]_vars

\* C14 witness: on a connected session an error event "Session Expired" has
\* scheduled the first reconnect (2000 ms).
C14_Witness ==
  /\ oLast = "errorEvent"
  /\ oErrorMsg = MsgSessionExpired
  /\ ~connected
  /\ reconnectAttempts = 1
  /\ Len(timers) = 1
  /\ timers[1].delay = 2000
  /\ oEmitted = <<"onError">>

(***************************************************************************)
(* Claims about the connection life cycle.                                 *)
(***************************************************************************)
\* C15: when a transport open has succeeded and the connected event has been
\* emitted (once), the session is connected, its handle is assigned and is
\* the open transport, the reconnect attempt count is 0 and the heartbeat
\* (Explicit-Trigger) or keepalive (Auto-VAD) interval is running.
C15_ConnectedEventState ==
  /\ (oLast = "connectResolved" =>
        /\ oEmitted = <<"onConnected">>
        /\ connected
        /\ client # Null
        /\ transport[client] = "open"
        /\ reconnectAttempts = 0
        /\ heartbeatInterval # Null)
  /\ (gLast = <<"connectResolved">> =>
        /\ gEmitted = <<"onConnected">>
        /\ gConnected
        /\ session # Null
        /\ gTransport[session] = "open"
        /\ keepaliveInterval # Null)

\* C16: the session owns at most one open transport, and every open
\* transport is the one this.client refers to (none is left open and
\* unreferenced).
C16_OneLiveHandle ==
  /\ Cardinality({c \in Clients : transport[c] = "open"}) <= 1
  /\ \A c \in Clients : transport[c] = "open" => client = c

(***************************************************************************)
(* Claims about errors and the public operations.                          *)
(***************************************************************************)
\* C17: sendAudio() and cancelResponse() never invoke the error callback,
\* on either backend: not when the transport send throws because the
\* transport is closed, and not when nothing is there to cancel.
C17_NoOpFailuresNotSurfaced ==
  /\ (oLast \in {"sendAudio", "cancelResponse"} => oEmitted = <<>>)
  /\ (gLast \in {<<"sendAudio">>, <<"cancelResponse">>} => gEmitted = <<>>)

OFields == <<client, connected, reconnectAttempts, heartbeatInterval, timers,
             transport, nextClient>>

\* C19: cancelResponse() raises nothing, invokes no callback and leaves
\* every field of the session (its connection state included) as it was, in
\* every state; the Explicit-Trigger session issues at most one cancel
\* request and no other transport call, the Auto-VAD session none at all.
C19_CancelResponseSafe ==
  /\ [][oLast' = "cancelResponse" =>
          /\ ~oRaised'
          /\ oEmitted' = <<>>
          /\ oSent' \in {<<>>, <<"cancelResponse">>}
          /\ UNCHANGED OFields]_vars
  /\ [][gLast' = <<"cancelResponse">> =>
          /\ ~gRaised'
          /\ gEmitted' = <<>>
          /\ gSent' = <<>>
          /\ UNCHANGED GFields]_vars

\* C19 witness: cancelResponse() has run on a session that is not connected
\* and whose client's transport is closed, issued its one request and left
\* the session as it was.
C19_Witness ==
  /\ oLast = "cancelResponse"
  /\ ~connected
  /\ client # Null
  /\ transport[client] = "closed"
  /\ oSent = <<"cancelResponse">>
  /\ ~oRaised

(***************************************************************************)
(* Claims about ordering.  Handlers run one at a time, in the order of the *)
(* calls and events, and forward synchronously: a stream is forwarded in   *)
(* order, without loss or duplication, exactly when every run forwards its *)
(* own item once.                                                          *)
(***************************************************************************)
\* C20: every sendAudio() call made while the session is connected issues
\* exactly one transport send (of its frame), on either backend; and every
\* inbound message with a model turn invokes the audio callback once per
\* audio part, before any other callback.
C20_OrderedForwarding ==
  /\ [][oLast' = "sendAudio" /\ connected =>
          oSent' = <<"appendInputAudio">>]_vars
  /\ [][gLast' = <<"sendAudio">> /\ gConnected =>
          gSent' = <<"sendRealtimeInput">>]_vars
  /\ [](Len(gLast) = 2 =>
          (/\ gLast[2].hasParts
           /\ ~gLast[2].setupComplete
           /\ ~gLast[2].interrupted
           => /\ Len(gEmitted) >= gLast[2].parts
              /\ SubSeq(gEmitted, 1, gLast[2].parts) = AudioCalls(gLast[2].parts)))

(***************************************************************************)
(* C21                                                                     *)
(***************************************************************************)
\* C21: with aiSpeaksFirst = true, the triggerResponse() call that the
\* caller's onConnected handler makes when a connect() begun by a reconnect
\* timer has resolved injects exactly one hidden user message, on the open
\* transport of the session's client.
C21_GreetingAfterReconnect ==
  [][/\ aiSpeaksFirst
     /\ oLast = "connectResolved"
     /\ oConnectVia = "timer"
     /\ oLast' = "triggerResponse"
     => /\ oSent' = <<"sendUserMessageContent">>
        /\ client # Null
        /\ transport[client] = "open"]_vars

(***************************************************************************)
(* C22 - C26: Resampler/Filter and Codec Bridge                            *)
(***************************************************************************)
\* C22: for every frame and every pair of rates with sourceRateHz >=
\* targetRateHz, downsampleAudio returns exactly
\* floor(n * targetRateHz / sourceRateHz) samples, and the input itself when
\* the rates are equal.
C22_DownsampleLength ==
  dspLast = "downsampleAudio" /\ sourceRateHz >= targetRateHz
  => /\ ~resampled.threw
     /\ Len(resampled.samples) = (Len(audioData) * targetRateHz) \div sourceRateHz
     /\ sourceRateHz = targetRateHz => resampled.same

\* C23: downsampleAudio with sourceRateHz < targetRateHz raises for every
\* frame, the empty one included, and returns no samples.
C23_UpsamplingFails ==
  dspLast = "downsampleAudio" /\ sourceRateHz < targetRateHz
  => resampled.threw /\ ~resampled.same /\ resampled.samples = <<>>

C23_Witness ==
  /\ dspLast = "downsampleAudio"
  /\ sourceRateHz < targetRateHz
  /\ audioData = <<>>
  /\ resampled.threw

\* C24: decoding the base64 text of a PCM frame gives the frame back: the same
\* length, samples and order, for every sample value of 16 bits.
C24_CodecRoundTrip ==
  dspLast = "base64ToInt16Array" => decoded = audioData

C24_Witness ==
  /\ dspLast = "base64ToInt16Array"
  /\ decoded = <<-32768, 32767, -1>>
  /\ encoded = <<"A", "I", "D", "/", "f", "/", "/", "/">>

\* C25: applyLowPassFilter of an all-zero frame of any length (shorter than
\* the 31 taps included) returns an all-zero frame of the same length.
C25_FilterOfSilence ==
  dspLast = "applyLowPassFilter" /\ (\A i \in DOMAIN audioData : audioData[i] = 0)
  => filtered = [i \in 1..Len(audioData) |-> "zero"]

C25_Witness ==
  /\ dspLast = "applyLowPassFilter"
  /\ Len(audioData) > 0
  /\ Len(audioData) < NumberOfTaps
  /\ \A i \in DOMAIN audioData : audioData[i] = 0
  /\ \A i \in DOMAIN filtered : filtered[i] = "zero"

\* The frames one inbound audio part made a session hand to onAudioData are
\* one frame, resampled, of floor(2n/3) samples for the part's n samples.
OneResampledFrame ==
  /\ Len(dspEmitted) = 1
  /\ ~dspEmitted[1].same
  /\ Len(dspEmitted[1].samples) = (2 * Len(audioData)) \div 3

TimerTracksSilence ==
  interacting =>
    /\ quietFor <= INACTIVITY_DURATION
    /\ \E t \in pendingTimers :
         /\ t.id = inactivityTimerRef
         /\ t.remaining = INACTIVITY_DURATION - quietFor

\* The timer's callback stops the interaction.
TimerStopsInteraction ==
  rLast = "inactivityTimer" =>
    /\ processorRef = Null /\ streamRef = Null /\ processors = {}
    /\ voiceClientRef = Null /\ ~isVoiceConnectedRef
    /\ ~interacting

\* C27: once recording has started, 20 s without a microphone frame of mean
\* absolute amplitude above 0.01 fire the inactivity timer, which stops the
\* interaction (recording stopped, voice client disconnected); assistant
\* audio never resets the timer; at most one inactivity timer is pending.
C27_InactivityTimeout ==
  /\ TimerTracksSilence
  /\ TimerStopsInteraction
  /\ Cardinality(pendingTimers) <= 1
  /\ dLast = "onAudioData" /\ rLast = "init" => pendingTimers = {}

(***************************************************************************)
(* Claims about the hand-off to the sink.                                  *)
(***************************************************************************)

C29_DrainBeforeYielding ==
  dLast \in {"onAudioData", "onAudioDataThrew"}
    => audioChunkQueue = <<>> /\ ~isProcessingChunk

(***************************************************************************)
(* Claims about the reconnect counter (checked under SpecOpenAI).          *)
(***************************************************************************)

\* The handlers that meet a failure: a rejected connect(), an error event, a
\* session update, a failed send.
FailureHandlers == {"connectRejected", "errorEvent", "sessionUpdated", "sendAudio"}

\* C30: reconnectAttempts stays within 0..5; every successful connection
\* resets it to 0; it grows only by exactly 1, in a handler that met a
\* failure and that schedules exactly one reconnect; it falls only to 0, on
\* a successful connection or an explicit disconnect().
C30_AttemptCounter ==
  [][/\ reconnectAttempts' \in 0..RECONNECT_MAX_ATTEMPTS
     /\ oLast' = "connectResolved" => reconnectAttempts' = 0
     /\ reconnectAttempts' > reconnectAttempts
          => /\ reconnectAttempts' = reconnectAttempts + 1
             /\ oLast' \in FailureHandlers
             /\ Len(timers') = Len(timers) + 1
     /\ reconnectAttempts' < reconnectAttempts
          => /\ reconnectAttempts' = 0
             /\ oLast' \in {"connectResolved", "disconnect"}]_vars

C30_Witness ==
  /\ oLast = "connectRejected"
  /\ reconnectAttempts = RECONNECT_MAX_ATTEMPTS
  /\ Len(timers) = 1
  /\ Len(episodeDelays) = RECONNECT_MAX_ATTEMPTS

(***************************************************************************)
(* Claims about the keepalive and the connected flag of the Auto-VAD       *)
(* session (checked under SpecGemini).                                     *)
(***************************************************************************)

\* A keepalive tick that sends does so on a connected session with an
\* assigned transport whose close was neither requested nor reported, and
\* the frame is 160 zero samples.
KeepaliveFrameOnLiveTransport ==
  gLast = <<"keepaliveTick">> /\ gSent # <<>> =>
    /\ gConnected
    /\ session # Null
    /\ gTransport[session] \notin {"closingLocal", "closed"}
    /\ Len(gHistory.keepaliveFrame) = 160
    /\ \A i \in 1..160 : gHistory.keepaliveFrame[i] = 0

\* C31: a keepalive tick sends a frame only when the session is connected
\* with an assigned transport, never after disconnect() (until the caller
\* connects again) nor after an error or close of that transport, and every
\* keepalive frame is exactly 160 zero samples.
C31_KeepaliveOnlyWhenConnected ==
  /\ KeepaliveFrameOnLiveTransport
  /\ gLast = <<"keepaliveTick">> /\ gSent # <<>>
       => ~gHistory.disconnectedSinceConnect

\* C34: after disconnect() has returned and until the caller calls connect()
\* again, the session is not connected and emits no connected event, also
\* when a connect() was still awaiting its transport at the disconnect().
C34_DisconnectedUntilConnect ==
  gHistory.disconnectedSinceConnect =>
    /\ ~gConnected
    /\ \A i \in DOMAIN gEmitted : gEmitted[i] # "onConnected"
    /\ keepaliveInterval = Null

(***************************************************************************)
(* Claims about the transport events of the Explicit-Trigger session       *)
(* (checked under SpecOpenAI).                                             *)
(***************************************************************************)

\* C32: the conversation.interrupted handler invokes the interruption
\* callback exactly once and next issues the one cancel request (none when
\* the session holds no client), issues no other call, lets no exception of
\* the cancel request out and changes no field of the session.
C32_InterruptedCancels ==
  [][oLast' = "conversationInterrupted" =>
       /\ oEmitted' = <<"onInterruption">>
       /\ oHistory'.calls[1] = "onInterruption"
       /\ oHistory'.calls = <<"onInterruption">> \o oSent'
       /\ oSent' = (IF client = Null THEN <<>> ELSE <<"cancelResponse">>)
       /\ ~oRaised'
       /\ UNCHANGED <<client, connected, reconnectAttempts, heartbeatInterval,
                      timers, transport, nextClient>>]_vars

\* C32 witness: the handler ran on a connected session, invoked the
\* callback and then issued its cancel request.
C32_Witness ==
  /\ oLast = "conversationInterrupted"
  /\ connected /\ client # Null
  /\ oHistory.calls = <<"onInterruption", "cancelResponse">>
  /\ ~oRaised

\* C33 (SpecReconnect): at most one reconnect backoff timer is pending; a
\* failure met while a timer is pending schedules no timer and consumes no
\* attempt.
C33_OneReconnectTimer ==
  [][/\ Len(timers') <= 1
     /\ Len(timers) >= 1 /\ oLast' \in FailureHandlers
          => Len(timers') <= Len(timers) /\ reconnectAttempts' <= reconnectAttempts]_vars

\* C35: a session that reports isConnected() = true holds a transport handle
\* (the RealtimeClient, the Gemini session) on which it has not called
\* disconnect() or close().
C35_ConnectedHasTransport ==
  /\ connected => client # Null
  /\ gConnected => session # Null /\ gTransport[session] # "closingLocal"

\* C36: an event delivered by a transport handle the session has torn down
\* has no effect.  For the close event of a Gemini session on which
\* disconnect() called close(): no callback is invoked, and the connected
\* flag, the handle, the keepalive interval and the mid-response flag keep
\* their values.
C36_TornDownHandleIgnored ==
  [][\A h \in Sessions :
       gTransport[h] = "closingLocal" /\ gTransport'[h] = "closed"
         => /\ gEmitted' = <<>>
            /\ UNCHANGED <<session, gConnected, keepaliveInterval, modelSpeaking>>]_vars

\* C38: whenever the Auto-VAD session is connected on an open transport and
\* no response of that transport is under way, modelSpeaking is false, so
\* that the next keepalive tick sends.
C38_NoStaleModelSpeaking ==
  /\ gConnected
  /\ session # Null
  /\ gTransport[session] = "open"
  /\ session \notin responding
  => ~modelSpeaking

\* The handler that just ran met the loss of the Auto-VAD session's
\* connection: an error or close event of a transport, or a sendAudio whose
\* send threw because the transport is not open.
GLostConnection ==
  \/ gLast' \in {<<"onerror">>, <<"onclose">>}
  \/ /\ gLast' = <<"sendAudio">>
     /\ gConnected /\ session # Null /\ gTransport[session] # "open"

\* C39: the Auto-VAD session never reconnects by itself.  A handler that
\* meets the loss of the connection leaves isConnected() false, reports it
\* through exactly one error or disconnected callback, and starts no
\* connect; a connect is started only by the caller's connect().
C39_NoAutomaticReconnect ==
  [][/\ GLostConnection =>
          /\ ~gConnected'
          /\ gEmitted' \in {<<"onError">>, <<"onDisconnected">>}
          /\ UNCHANGED <<session, nextSession, gCallerConnect>>
          /\ \A h \in Sessions : gTransport'[h] = "connecting"
                                   => gTransport[h] = "connecting"
     /\ nextSession' # nextSession => gLast' = <<"connect">>]_vars

\* A sendAudio on a session whose transport was lost has cleared the
\* connected flag and reported the error, with no connect under way.
C39_Witness ==
  /\ gLast = <<"sendAudio">>
  /\ gSent = <<"sendRealtimeInput">>
  /\ gEmitted = <<"onError">>
  /\ ~gConnected
  /\ gCallerConnect = Null
  /\ \A h \in Sessions : gTransport[h] # "connecting"

\* C40: in downsampleAudio with sourceRateHz > targetRateHz, for a frame of
\* n samples every interpolation read index floor(i * ratio), i in
\* 0..newLength-1, lies within 0..n-1, so that no returned sample was read
\* past the end of the filtered frame.
C40_ReadIndexInRange ==
  dspLast = "downsampleAudio" /\ sourceRateHz > targetRateHz
  => \A i \in 1..Len(resampled.samples) :
       /\ Position[<<sourceRateHz, targetRateHz>>][i - 1].index \in 0..(Len(audioData) - 1)
       /\ resampled.samples[i] # "undefined"

\* A call whose last read is as close to the end of the frame as a ratio
\* above 1 allows: index n - 2, interpolated with the last sample.
C40_Witness ==
  /\ dspLast = "downsampleAudio"
  /\ sourceRateHz > targetRateHz
  /\ Len(resampled.samples) >= 2
  /\ Position[<<sourceRateHz, targetRateHz>>][Len(resampled.samples) - 1].index
       = Len(audioData) - 2

(***************************************************************************)
(* Outage termination (checked under SpecOutage).                          *)
(***************************************************************************)
\* An outage episode is under way: the session is not connected and has
\* consumed reconnect attempts.
InOutage == ~connected /\ reconnectAttempts > 0

ConnectInFlight == \E c \in Clients : transport[c] = "connecting"

EndedConnected == connected /\ reconnectAttempts = 0

EndedExhausted ==
  /\ ~connected
  /\ reconnectAttempts = RECONNECT_MAX_ATTEMPTS
  /\ timers = <<>>
  /\ ~ConnectInFlight

\* A timer is pending whose connect() would need one more RealtimeClient
\* than the model has.
OutOfClients == nextClient = MaxClients /\ timers # <<>>

=============================================================================
